---- MODULE Spec2Model ----
(***************************************************************************)
(* Verification model of the printipi motion pipeline:                     *)
(*   - MotionPlanner (src/src/motion/motionplanner.h),                     *)
(*   - LinearDeltaStepper / LinearDeltaArcStepper                          *)
(*     (src/src/drivers/lineardeltastepper.h),                             *)
(*   - State: onIdleCpu / tendComChannel / execute / queueMovement /       *)
(*     homeEndstops (src/src/state.h), with the older synchronous State    *)
(*     (src/code/firmware/src/state.h) used where it documents intent.     *)
(*                                                                         *)
(* Arithmetic.  The program computes in single-precision floats.  Here     *)
(* times are integers (ticks), velocities are exact ratios num/den, and    *)
(* sqrt is the integer square root.  NaN is a distinguished value and the  *)
(* comparison operators FGt/FLt/FLe are false on it, as in IEEE-754.       *)
(***************************************************************************)
EXTENDS Integers, Sequences, FiniteSets, TLC

(***************************************************************************)
(* Bounds of the model.                                                    *)
(***************************************************************************)
\* X coordinates of destinations lie in 0..MaxCoord (millimetres); the other
\* axes move between 0 and 1.
MaxCoord == 3
\* The X endstop triggers at most MaxHomeDist steps after homing starts, the
\* other endstops after at most one step.
MaxHomeDist == 2
\* Resolution of the model's clock.
TicksPerSecond == 12

(***************************************************************************)
(* Floats.                                                                 *)
(***************************************************************************)
NaN == -1000000

IsNaN(x) == x = NaN

\* C++ a > b, a < b, a <= b on floats: false when either side is NaN.
FGt(a, b) == ~IsNaN(a) /\ ~IsNaN(b) /\ a > b
FLt(a, b) == ~IsNaN(a) /\ ~IsNaN(b) /\ a < b
FLe(a, b) == ~IsNaN(a) /\ ~IsNaN(b) /\ a <= b

Abs(x) == IF x < 0 THEN -x ELSE x

\* The element of a one-element set.  Only({F(x) : x \in {v}}) is F(v) with
\* v computed once and named x.
Only(S) == CHOOSE y \in S : TRUE

\* floor(sqrt(n)) for n >= 0.
ISqrt(n) == Only({CHOOSE r \in 0..m : r * r <= m /\ (r + 1) * (r + 1) > m : m \in {n}})

(***************************************************************************)
(* Step directions and events.                                             *)
(***************************************************************************)
StepForward == "StepForward"
StepBackward == "StepBackward"

stepDirToSigned(dir) == IF dir = StepForward THEN 1 ELSE -1

\* Event(): the null event.
NullEvent == [null |-> TRUE, time |-> 0, axis |-> 0, dir |-> StepForward]

\* AxisStepper::getEvent(transformedTime) followed by Event::offset(baseTime).
getEvent(s, realTime) == [null |-> FALSE, time |-> realTime, axis |-> s.index, dir |-> s.direction]

offset(evt, base) == [evt EXCEPT !.time = @ + base]

MotionNone == "MotionNone"
MotionMove == "MotionMove"
MotionHome == "MotionHome"

(***************************************************************************)
(* Axes.  A Cartesian machine with one step per millimetre: X, Y, Z, E.    *)
(***************************************************************************)
Axes == 0..3
AxisE == 3
HomeAxes == 0..2

(***************************************************************************)
(* Cartesian axis stepper for a linear segment (drivers/linearstepper.h is *)
(* not part of the sources; modelled from the specification, 4.2): the     *)
(* k-th step of an axis moving at velocity vn/vd mm per tick happens when  *)
(* the axis coordinate has changed by k steps, at time k*vd/|vn|.  A zero  *)
(* or NaN velocity never steps.                                            *)
(***************************************************************************)
LinearStepTime(k, vn, vd) == IF vn = 0 \/ vd = 0 THEN NaN ELSE (k * vd) \div Abs(vn)

LinearStepper(idx, vn, vd) ==
    [kind |-> "linear", index |-> idx, time |-> 0,
     direction |-> IF vn < 0 THEN StepBackward ELSE StepForward,
     sTotal |-> 0, vn |-> vn, vd |-> vd]

LinearStepper_nextStep(s) ==
    [s EXCEPT !.sTotal = @ + 1, !.time = LinearStepTime(s.sTotal + 1, s.vn, s.vd)]

(***************************************************************************)
(* Homing stepper (LinearHomeStepper, not part of the sources; modelled    *)
(* from the specification, 4.4): steps towards the endstop at a constant   *)
(* rate and reports NaN once its endstop is triggered.  An axis without    *)
(* an endstop (the extruder) reports NaN at once.                          *)
(***************************************************************************)
LinearHomeStepper(idx, timePerStep) ==
    [kind |-> "home", index |-> idx, time |-> 0, direction |-> StepBackward,
     sTotal |-> 0, vn |-> 1, vd |-> timePerStep]

isTriggered(es, idx) == IF idx \in DOMAIN es THEN es[idx] ELSE TRUE

LinearHomeStepper_nextStep(s, es) ==
    IF isTriggered(es, s.index) \/ IsNaN(s.time)
    THEN [s EXCEPT !.time = NaN]
    ELSE [s EXCEPT !.sTotal = @ + 1, !.time = @ + s.vd]

(***************************************************************************)
(* LinearDeltaStepper<DELTA_AXIS_A> (lineardeltastepper.h:396-524).        *)
(* Tower A stands at (0, r).  The effector starts at (x0,y0,z0) and moves  *)
(* with velocity (vx,vy,vz); the carriage starts at M0 and is tested at    *)
(* M0 + s.  The source works with term1 = N/v2 and                         *)
(* rootParam = term1^2 - C/v2 in seconds; the model multiplies times by    *)
(* v2*DeltaTimeScale so that they are integers:                            *)
(*     term1     = DeltaTimeScale * N(s)                                   *)
(*     rootParam = DeltaTimeScale^2 * (N(s)^2 - v2*C(s))                   *)
(* with N(s) = r*vy - vx*x0 - vy*y0 + vz*(M0 - z0 + s) and                 *)
(*      C(s) = -L^2 + x0^2 + (r-y0)^2 + (M0 - z0 + s)^2.                   *)
(***************************************************************************)
DeltaTimeScale == 4

LinearDeltaStepper(idx, g) ==
    [kind |-> "delta", index |-> idx, time |-> 0, direction |-> StepForward,
     sTotal |-> 0, MM_STEPS |-> 1,
     r |-> g.r, L |-> g.L, M0 |-> g.M0, x0 |-> g.x0, y0 |-> g.y0, z0 |-> g.z0,
     vx |-> g.vx, vy |-> g.vy, vz |-> g.vz]

v2(d) == d.vx * d.vx + d.vy * d.vy + d.vz * d.vz

getTerm1(d, s) ==
    DeltaTimeScale * (d.r * d.vy - d.vx * d.x0 - d.vy * d.y0 + d.vz * (d.M0 - d.z0 + s))

getRootParam(d, s) ==
    getTerm1(d, s) * getTerm1(d, s)
      - DeltaTimeScale * DeltaTimeScale * v2(d)
          * (-(d.L * d.L) + d.x0 * d.x0 + (d.r - d.y0) * (d.r - d.y0)
             + (d.M0 - d.z0 + s) * (d.M0 - d.z0 + s))

\* The variant of testDir that returns the earlier root of a pair of
\* non-negative roots without comparing it with the last emitted time.
testDir_earlierRoot(d, s) ==
    IF v2(d) = 0 THEN NaN
    ELSE IF getRootParam(d, s) < 0 THEN NaN
    ELSE LET term1 == getTerm1(d, s)
             root == ISqrt(getRootParam(d, s))
             t1 == term1 - root
             t2 == term1 + root
         IN IF root > term1
            THEN (IF FGt(t2, d.time) THEN t2 ELSE NaN)
            ELSE t1

\* lineardeltastepper.h:467-482.  With v2 = 0 the source divides by zero:
\* term1 and rootParam are NaN and every comparison fails, so NaN is returned.
testDir(d, s) ==
    IF v2(d) = 0 THEN NaN
    ELSE IF getRootParam(d, s) < 0 THEN NaN
    ELSE LET term1 == getTerm1(d, s)
             root == ISqrt(getRootParam(d, s))
             t1 == term1 - root
             t2 == term1 + root
         IN IF root > term1
            THEN (IF FGt(t2, d.time) THEN t2 ELSE NaN)
            ELSE (IF FGt(t1, d.time) THEN t1 ELSE (IF FGt(t2, d.time) THEN t2 ELSE NaN))

\* The choice between the backward and the forward candidate, shared by
\* LinearDeltaStepper::_nextStep (484-523) and LinearDeltaArcStepper::_nextStep
\* (354-393), which are the same text.
chooseStep(d, negTime, posTime) ==
    IF FLt(negTime, d.time) \/ IsNaN(negTime)
    THEN (IF FGt(posTime, d.time)
          THEN [d EXCEPT !.time = posTime, !.direction = StepForward, !.sTotal = @ + 1]
          ELSE [d EXCEPT !.time = NaN])
    ELSE IF FLt(posTime, d.time) \/ IsNaN(posTime)
    THEN (IF FGt(negTime, d.time)
          THEN [d EXCEPT !.time = negTime, !.direction = StepBackward, !.sTotal = @ - 1]
          ELSE [d EXCEPT !.time = NaN])
    ELSE (IF FLt(negTime, posTime)
          THEN [d EXCEPT !.time = negTime, !.direction = StepBackward, !.sTotal = @ - 1]
          ELSE [d EXCEPT !.time = posTime, !.direction = StepForward, !.sTotal = @ + 1])

\* The variant of LinearDeltaStepper_nextStep that steps backward whenever
\* the backward candidate is valid.
LinearDeltaStepper_nextStep_backwardFirst(d) ==
    LET negTime == testDir(d, (d.sTotal - 1) * d.MM_STEPS)
        posTime == testDir(d, (d.sTotal + 1) * d.MM_STEPS)
    IN IF FGt(negTime, d.time)
       THEN [d EXCEPT !.time = negTime, !.direction = StepBackward, !.sTotal = @ - 1]
       ELSE chooseStep(d, negTime, posTime)

LinearDeltaStepper_nextStep(d) ==
    chooseStep(d, testDir(d, (d.sTotal - 1) * d.MM_STEPS), testDir(d, (d.sTotal + 1) * d.MM_STEPS))

(***************************************************************************)
(* LinearDeltaArcStepper (lineardeltastepper.h:280-394).  The source       *)
(* solves m*sin(wt) + n*cos(wt) + p(D) = 0 for the phase wt with atan2,    *)
(* which gives the two phases theta0 + delta(D) and theta0 - delta(D) in   *)
(* (-pi, pi], and NaN when the carriage never reaches height D.  The model *)
(* divides the circle into 2*ArcHalf phases: the carriage is at its        *)
(* extreme height at phase theta0 and each step of height moves the two    *)
(* solutions one phase apart.  At time 0 the carriage is at M0, so         *)
(* delta(0) = |theta0|.  The angular velocity m is +1 or -1 phase/tick.    *)
(***************************************************************************)
ArcHalf == 4

Wrap(th) == ((th + ArcHalf - 1) % (2 * ArcHalf)) - (ArcHalf - 1)

LinearDeltaArcStepper(idx, g) ==
    [kind |-> "arc", index |-> idx, time |-> 0, direction |-> StepForward,
     sTotal |-> 0, MM_STEPS |-> 1, theta0 |-> g.theta0, peak |-> g.peak, m |-> g.m]

arcDelta(a, s) == Abs(a.theta0) - a.peak * s

\* std::min(a, b) == (b < a) ? b : a
FMin(a, b) == IF FLt(b, a) THEN b ELSE a

\* lineardeltastepper.h:319-352.
arcTestDir(a, s, curTime) ==
    LET ok == arcDelta(a, s) >= 0 /\ arcDelta(a, s) <= ArcHalf
        mt_1 == IF ok THEN Wrap(a.theta0 + arcDelta(a, s)) ELSE NaN
        mt_2 == IF ok THEN Wrap(a.theta0 - arcDelta(a, s)) ELSE NaN
        t1 == IF ok THEN mt_1 * a.m ELSE NaN
        t2 == IF ok THEN mt_2 * a.m ELSE NaN
    IN IF FLt(t1, curTime) /\ FLt(t2, curTime) THEN NaN
       ELSE IF FLt(t1, curTime) THEN t2
       ELSE IF FLt(t2, curTime) THEN t1
       ELSE FMin(t1, t2)

LinearDeltaArcStepper_nextStep(a) ==
    chooseStep(a, arcTestDir(a, (a.sTotal - 1) * a.MM_STEPS, a.time),
                  arcTestDir(a, (a.sTotal + 1) * a.MM_STEPS, a.time))

(***************************************************************************)
(* AxisStepper tuple helpers (drivers/axisstepper.h is not part of the     *)
(* sources; modelled from the specification, 4.4 next_event step 2).       *)
(***************************************************************************)
\* s.nextStep(iters): recompute this stepper's next step.
AxisStepper_nextStep(s, es) ==
    CASE s.kind = "linear" -> LinearStepper_nextStep(s)
      [] s.kind = "home" -> LinearHomeStepper_nextStep(s, es)
      [] s.kind = "delta" -> LinearDeltaStepper_nextStep(s)
      [] s.kind = "arc" -> LinearDeltaArcStepper_nextStep(s)

\* The stepper with the smallest time; NaN counts as never; ties go to the
\* lower axis index.
getNextTime(iters) ==
    LET valid == {i \in DOMAIN iters : ~IsNaN(iters[i].time)}
    IN IF valid = {} THEN iters[CHOOSE i \in DOMAIN iters : \A j \in DOMAIN iters : i <= j]
       ELSE iters[CHOOSE i \in valid :
                    \A j \in valid : iters[i].time < iters[j].time
                                     \/ (iters[i].time = iters[j].time /\ i <= j)]

(***************************************************************************)
(* CoordMap of the Cartesian machine (not part of the sources; modelled    *)
(* from the specification, 4.1, with one step per millimetre, no bed       *)
(* levelling and home position (0,0,0) that keeps the extruder).  The      *)
(* machine's envelope is -MaxCoord..MaxCoord on X, Y and Z; bound clamps   *)
(* a position to it.                                                       *)
(***************************************************************************)
xyzeFromMechanical(mech) == mech

applyLeveling(xyze) == xyze

inEnvelope(xyze) == \A i \in HomeAxes : xyze[i] >= -MaxCoord /\ xyze[i] <= MaxCoord

bound(xyze) ==
    [i \in DOMAIN xyze |-> IF i \notin HomeAxes THEN xyze[i]
                           ELSE IF xyze[i] > MaxCoord THEN MaxCoord
                           ELSE IF xyze[i] < -MaxCoord THEN -MaxCoord
                           ELSE xyze[i]]

getHomePosition(cur) == [i \in DOMAIN cur |-> IF i \in HomeAxes THEN 0 ELSE cur[i]]

\* NoAcceleration::transform (accelerationprofile.h is not part of the
\* sources; the specification, 4.3, gives the default profile as the identity).
accelTransform(t) == t

(***************************************************************************)
(* MotionPlanner (src/src/motion/motionplanner.h).  A planner is a record  *)
(*   _motionType, _destMechanicalPos, _iters, _homeIters, _baseTime,       *)
(*   _duration.                                                            *)
(* Operators take the planner and return [p |-> planner', evt |-> Event].  *)
(***************************************************************************)
NoSteppers == [i \in Axes |-> LinearStepper(i, 0, 0)]

\* MotionPlanner::MotionPlanner(), motionplanner.h:39-46.
MotionPlannerInit ==
    [_motionType |-> MotionNone, _destMechanicalPos |-> [i \in Axes |-> 0],
     _iters |-> NoSteppers, _homeIters |-> NoSteppers,
     _baseTime |-> 0, _duration |-> NaN]

\* motionplanner.h:48-51.
readyForNextMove(p) == p._motionType = MotionNone

\* Variant of stepIsOver that also ends the segment at a step due exactly at
\* the end of the segment.
stepIsOver_atDuration(s, duration) ==
    (~IsNaN(s.time) /\ ~IsNaN(duration) /\ s.time >= duration) \/ FLe(s.time, 0) \/ IsNaN(s.time)

\* motionplanner.h:56: s.time > _duration || s.time <= 0 || isnan(s.time).
stepIsOver(s, duration) == FGt(s.time, duration) \/ FLe(s.time, 0) \/ IsNaN(s.time)

\* Variant of nextStepOf that returns the step without counting it.
nextStepOf_uncounted(p, s, isHoming, es) ==
    IF stepIsOver(s, p._duration)
    THEN [p |-> [p EXCEPT !._destMechanicalPos =
                              IF isHoming THEN getHomePosition(@) ELSE @,
                          !._motionType = MotionNone],
          evt |-> NullEvent]
    ELSE [p |-> [p EXCEPT !._homeIters[s.index] =
                              IF isHoming THEN AxisStepper_nextStep(s, es) ELSE @,
                          !._iters[s.index] =
                              IF isHoming THEN @ ELSE AxisStepper_nextStep(s, es)],
          evt |-> offset(getEvent(s, accelTransform(s.time)), p._baseTime)]

\* Variant of nextStepOf that counts every step twice.
nextStepOf_doubleStep(p, s, isHoming, es) ==
    IF stepIsOver(s, p._duration)
    THEN [p |-> [p EXCEPT !._destMechanicalPos =
                              IF isHoming THEN getHomePosition(@) ELSE @,
                          !._motionType = MotionNone],
          evt |-> NullEvent]
    ELSE [p |-> [p EXCEPT !._destMechanicalPos[s.index] =
                              @ + 2 * stepDirToSigned(s.direction),
                          !._homeIters[s.index] =
                              IF isHoming THEN AxisStepper_nextStep(s, es) ELSE @,
                          !._iters[s.index] =
                              IF isHoming THEN @ ELSE AxisStepper_nextStep(s, es)],
          evt |-> offset(getEvent(s, accelTransform(s.time)), p._baseTime)]

\* motionplanner.h:53-81.
nextStepOf(p, s, isHoming, es) ==
    IF stepIsOver(s, p._duration)
    THEN [p |-> [p EXCEPT !._destMechanicalPos =
                              IF isHoming THEN getHomePosition(@) ELSE @,
                          !._motionType = MotionNone],
          evt |-> NullEvent]
    ELSE [p |-> [p EXCEPT !._destMechanicalPos[s.index] = @ + stepDirToSigned(s.direction),
                          !._homeIters[s.index] =
                              IF isHoming THEN AxisStepper_nextStep(s, es) ELSE @,
                          !._iters[s.index] =
                              IF isHoming THEN @ ELSE AxisStepper_nextStep(s, es)],
          evt |-> offset(getEvent(s, accelTransform(s.time)), p._baseTime)]

\* Variant of nextStep that serves the axes one after the other, highest
\* index first, instead of the axis whose step is due first.
lastPending(iters, duration) ==
    LET pending == {i \in DOMAIN iters : ~stepIsOver(iters[i], duration)}
    IN IF pending = {} THEN getNextTime(iters)
       ELSE iters[CHOOSE i \in pending : \A j \in pending : j <= i]

nextStep_axisByAxis(p, es) ==
    IF p._motionType = MotionNone THEN [p |-> p, evt |-> NullEvent]
    ELSE IF p._motionType = MotionHome
         THEN nextStepOf(p, lastPending(p._homeIters, p._duration), TRUE, es)
         ELSE nextStepOf(p, lastPending(p._iters, p._duration), FALSE, es)

\* motionplanner.h:101-114.
nextStep(p, es) ==
    IF p._motionType = MotionNone THEN [p |-> p, evt |-> NullEvent]
    ELSE IF p._motionType = MotionHome
         THEN Only({nextStepOf(p, s, TRUE, es) : s \in {getNextTime(p._homeIters)}})
         ELSE Only({nextStepOf(p, s, FALSE, es) : s \in {getNextTime(p._iters)}})

\* drv::AxisStepper::initAxisSteppers (motionplanner.h:143): build each axis
\* stepper from its velocity and compute its first step.
initAxisSteppers(vel) ==
    [i \in Axes |-> LinearStepper_nextStep(LinearStepper(i, vel[i].n, vel[i].d))]

\* motionplanner.h:123-128: the duration of the XYZ motion at maxVelXyz.
xyzDuration(p, dest, maxVelXyz) ==
    LET cur == xyzeFromMechanical(p._destMechanicalPos)
        d == bound(applyLeveling(dest))
        distSq == (d[0] - cur[0]) * (d[0] - cur[0]) + (d[1] - cur[1]) * (d[1] - cur[1])
                    + (d[2] - cur[2]) * (d[2] - cur[2])
        dist == ISqrt(distSq * TicksPerSecond * TicksPerSecond)
    IN dist \div maxVelXyz

\* Variant of moveTo that keeps the duration of the XYZ motion when the
\* extruder velocity is clamped.
moveToIn_unclampedDuration(p, baseTime, dest, minDuration0, minVelE, maxVelE) ==
    LET cur == xyzeFromMechanical(p._destMechanicalPos)
        d == bound(applyLeveling(dest))
        de == d[AxisE] - cur[AxisE]
        clampHi == IF minDuration0 = 0 THEN de >= 0
                   ELSE de * TicksPerSecond > maxVelE * minDuration0
        clampLo == IF minDuration0 = 0 THEN de < 0
                   ELSE de * TicksPerSecond < minVelE * minDuration0
        newVelE == IF clampHi THEN maxVelE ELSE minVelE
        clamped == clampHi \/ clampLo
        velE == IF clamped THEN [n |-> newVelE, d |-> TicksPerSecond]
                ELSE [n |-> de, d |-> minDuration0]
        vel == [i \in Axes |-> IF i = AxisE THEN velE
                               ELSE [n |-> d[i] - cur[i], d |-> minDuration0]]
    IN [p EXCEPT !._baseTime = baseTime,
                 !._iters = initAxisSteppers(vel),
                 !._duration = minDuration0,
                 !._motionType = MotionMove]

\* Variant of moveToIn that hands the ideal extruder velocity to the stepper
\* whatever the limits are.
moveToIn_unclampedVelocity(p, baseTime, dest, minDuration0, minVelE, maxVelE) ==
    LET cur == xyzeFromMechanical(p._destMechanicalPos)
        d == bound(applyLeveling(dest))
        vel == [i \in Axes |-> [n |-> d[i] - cur[i], d |-> minDuration0]]
    IN [p EXCEPT !._baseTime = baseTime,
                 !._iters = initAxisSteppers(vel),
                 !._duration = minDuration0,
                 !._motionType = MotionMove]

\* motionplanner.h:129-152, once the duration of the XYZ motion is known.
moveToIn(p, baseTime, dest, minDuration0, minVelE, maxVelE) ==
    LET cur == xyzeFromMechanical(p._destMechanicalPos)
        d == bound(applyLeveling(dest))
        de == d[AxisE] - cur[AxisE]
        \* newVelE = max(minVelE, min(maxVelE, velE)) with velE = de/minDuration0;
        \* for minDuration0 = 0, velE is +inf, -inf or NaN.
        clampHi == IF minDuration0 = 0 THEN de >= 0
                   ELSE de * TicksPerSecond > maxVelE * minDuration0
        clampLo == IF minDuration0 = 0 THEN de < 0
                   ELSE de * TicksPerSecond < minVelE * minDuration0
        newVelE == IF clampHi THEN maxVelE ELSE minVelE
        clamped == clampHi \/ clampLo
        minDuration == IF clamped THEN (Abs(de) * TicksPerSecond) \div Abs(newVelE)
                       ELSE minDuration0
        velE == IF clamped THEN [n |-> newVelE, d |-> TicksPerSecond]
                ELSE [n |-> de, d |-> minDuration]
        vel == [i \in Axes |-> IF i = AxisE THEN velE
                               ELSE [n |-> d[i] - cur[i], d |-> minDuration]]
    IN [p EXCEPT !._baseTime = baseTime,
                 !._iters = initAxisSteppers(vel),
                 !._duration = minDuration,
                 !._motionType = MotionMove]

moveTo_unclampedDuration(p, baseTime, dest, maxVelXyz, minVelE, maxVelE) ==
    Only({moveToIn_unclampedDuration(p, baseTime, dest, minDuration0, minVelE, maxVelE)
          : minDuration0 \in {xyzDuration(p, dest, maxVelXyz)}})

\* motionplanner.h:115-152.  dest is <<x, y, z, e>> indexed by axis;
\* velocities are in mm/s, durations in ticks.
moveTo(p, baseTime, dest, maxVelXyz, minVelE, maxVelE) ==
    Only({moveToIn(p, baseTime, dest, minDuration0, minVelE, maxVelE)
          : minDuration0 \in {xyzDuration(p, dest, maxVelXyz)}})

\* drv::AxisStepper::initAxisHomeSteppers (motionplanner.h:158).
initAxisHomeSteppers(maxVelXyz, es) ==
    [i \in Axes |-> LinearHomeStepper_nextStep(
                        LinearHomeStepper(i, TicksPerSecond \div maxVelXyz), es)]

\* Variant of homeEndstops that resets the position when homing starts.
homeEndstops_resetAtStart(p, baseTime, maxVelXyz, es) ==
    [p EXCEPT !._homeIters = initAxisHomeSteppers(maxVelXyz, es),
              !._baseTime = baseTime,
              !._duration = NaN,
              !._motionType = MotionHome,
              !._destMechanicalPos = getHomePosition(@)]

\* motionplanner.h:154-165.
homeEndstops(p, baseTime, maxVelXyz, es) ==
    [p EXCEPT !._homeIters = initAxisHomeSteppers(maxVelXyz, es),
              !._baseTime = baseTime,
              !._duration = NaN,
              !._motionType = MotionHome]

(***************************************************************************)
(* State of the model.                                                     *)
(*   planner      State::_motionPlanner                                    *)
(*   endstopDist  the machine: steps between each carriage and its endstop *)
(*                when the current homing started                          *)
(* History (not program state) used to state the properties:               *)
(*   lastCall     the most recent planner call and what it returned        *)
(*   segEvents    the events returned by nextStep for the current segment  *)
(*   segInit      the planner call that started the current segment        *)
(*   posBase      mechanical position at construction / last home reset    *)
(*   stepSum      signed sum, per axis, of the steps returned since then   *)
(***************************************************************************)
VARIABLES planner, endstopDist, lastCall, segEvents, segInit, posBase, stepSum

\* Endstop readings during homing: a carriage that has made endstopDist[i]
\* steps since homing started presses its endstop.
endstops(p, dist) == [i \in HomeAxes |-> p._homeIters[i].sTotal >= dist[i]]

endstopsAtStart(dist) == [i \in HomeAxes |-> 0 >= dist[i]]

NoCall == [op |-> "none", before |-> MotionNone, evt |-> NullEvent,
           mechBefore |-> [i \in Axes |-> 0]]

NoSegment == [kind |-> MotionNone, mech |-> [i \in Axes |-> 0],
              dest |-> [i \in Axes |-> 0], baseTime |-> 0, maxVelXyz |-> 1]

(***************************************************************************)
(* The inputs of the planner.                                              *)
(***************************************************************************)
Velocities == {1, 2}

\* The extruder may move at most MaxExtrudeRate mm/s in either direction.
MaxExtrudeRate == 1

Destinations == {d \in [Axes -> 0..MaxCoord] : \A i \in Axes : i # 0 => d[i] <= 1}

EndstopDists == {d \in [HomeAxes -> 0..MaxHomeDist] : \A i \in HomeAxes : i # 0 => d[i] <= 1}

BaseTimes == {0, TicksPerSecond}

(***************************************************************************)
(* The whole machine: State (src/src/state.h) with its planner, the        *)
(* scheduler's event loop and the g-code channels.                         *)
(*                                                                         *)
(*   peekedEvt       the planner's peeked, not yet consumed event          *)
(*   st              the fields of State                                   *)
(*   gcodeFileStack  State::gcodeFileStack, a sequence of Com objects      *)
(*   schedQueue      the scheduler's queue, ordered by deadline            *)
(*   ioPending       events the IO drivers still have to offer             *)
(*   frames          the suspended callers of nested event loops: for each *)
(*                   nested State::eventLoop() the code still to run when  *)
(*                   it returns                                            *)
(*   needCpu         what the last onIdleCpu returned to the event loop    *)
(*   running         the outermost event loop has not returned             *)
(*   now             EventClockT::now()                                    *)
(*   machine         build-time configuration                              *)
(*   hist            history used to state the properties                  *)
(***************************************************************************)
VARIABLES peekedEvt, st, gcodeFileStack, schedQueue, ioPending, frames, needCpu,
          running, now, machine, hist

sysVars == <<peekedEvt, st, gcodeFileStack, schedQueue, ioPending, frames, needCpu,
             running, now, machine, hist>>

plannerHistVars == <<lastCall, segEvents, segInit, posBase, stepSum>>

vars == <<planner, endstopDist, plannerHistVars, sysVars>>

\* The scheduler holds at most SchedBufferSize events.
SchedBufferSize == 2

\* driver.defaultMoveRate() and the rate of the home routine, in mm/s.
MoveRates == [default |-> 2, home |-> 1]

\* The highest rate the machine's driver allows, in mm/s.
MaxMoveRate == 10

NoCmd == [op |-> "none", x |-> 0, line |-> 0]

(***************************************************************************)
(* Coordinates of the host (state.h:302-368).  A command's X/Y/Z/E         *)
(* parameters are a function from the axes that were given to the values.  *)
(* Lengths are whole millimetres and rates whole mm/s: a length in inches  *)
(* is converted exactly when it is a multiple of 5 in, a feed rate when it *)
(* is a multiple of 60 units/min.                                          *)
(***************************************************************************)
POS_ABSOLUTE == "POS_ABSOLUTE"
POS_RELATIVE == "POS_RELATIVE"

UNIT_MM == "UNIT_MM"
UNIT_IN == "UNIT_IN"

\* mathutil::MM_PER_IN, 25.4, as a ratio.
MM_PER_IN == [n |-> 254, d |-> 10]

\* The variant of coordToAbsolute that takes every coordinate as absolute.
coordToAbsolute_alwaysAbsolute(state, posUnit) == posUnit

\* state.h:320-328.
coordToAbsolute(state, posUnit) ==
    IF state._positionMode = POS_RELATIVE
    THEN [i \in Axes |-> posUnit[i] + state._destMm[i]]
    ELSE posUnit

\* state.h:330-339.
coordToMm(state, coord) ==
    IF state.unitMode = UNIT_IN
    THEN [i \in DOMAIN coord |-> (coord[i] * MM_PER_IN.n) \div MM_PER_IN.d]
    ELSE coord

\* state.h:341-343.
coordToPrimitive(state, coord) ==
    [i \in Axes |-> coordToMm(state, coordToAbsolute(state, coord))[i] + state._hostZeroOffset[i]]

\* The variant of fUnitToPrimitive that takes the feed rate as mm/min in
\* either unit mode.
fUnitToPrimitive_alwaysMm(state, posUnit) == posUnit \div 60

\* state.h:345-347.
fUnitToPrimitive(state, posUnit) ==
    coordToMm(state, [i \in Axes |-> IF i = 0 THEN posUnit \div 60 ELSE 0])[0]

\* Drv::clampMoveRate (the machine's driver is not part of the sources): the
\* machine moves at most at MaxMoveRate mm/s.
clampMoveRate(f) == IF f > MaxMoveRate THEN MaxMoveRate ELSE f

\* state.h:355-357.
setDestMoveRatePrimitive(state, f) ==
    [state EXCEPT !._destMoveRatePrimitive = clampMoveRate(f)]

\* G0/G1 with a feed rate, state.h:490-492; f is NaN when F is not given.
g1MoveRate(state, f) ==
    IF IsNaN(f) THEN state ELSE setDestMoveRatePrimitive(state, fUnitToPrimitive(state, f))

\* state.h:316-318; G20 and G21, state.h:531-536.
setUnitMode(state, mode) == [state EXCEPT !.unitMode = mode]

\* The variant of setHostZeroPos that makes the given position the offset.
setHostZeroPos_asOffset(state, pos) == [state EXCEPT !._hostZeroOffset = pos]

\* state.h:359-368.
setHostZeroPos(state, pos) ==
    [state EXCEPT !._hostZeroOffset = [i \in Axes |-> state._destMm[i] - pos[i]]]

\* The parameters as a vector; an axis that was not given reads 0.
paramVector(args) == [i \in Axes |-> IF i \in DOMAIN args THEN args[i] ELSE 0]

\* The destination of G0/G1, state.h:481-489.
g1Dest(state, args) ==
    LET cmdDest == coordToPrimitive(state, paramVector(args))
    IN [i \in Axes |-> IF i \in DOMAIN args THEN cmdDest[i] ELSE state._destMm[i]]

\* The variant of executeG92 that keeps, for an axis that is not given, the
\* offset as the position.
executeG92_keepsOffset(state, args) ==
    IF DOMAIN args = {} THEN setHostZeroPos(state, [i \in Axes |-> 0])
    ELSE LET cmdPosMm == coordToMm(state, paramVector(args))
         IN setHostZeroPos(state, [i \in Axes |-> IF i \in DOMAIN args THEN cmdPosMm[i]
                                               ELSE state._hostZeroOffset[i]])

\* The variant of executeG92 that also takes the given position as the
\* destination.
executeG92_movesDest(state, args) ==
    IF DOMAIN args = {} THEN setHostZeroPos(state, [i \in Axes |-> 0])
    ELSE LET cmdPosMm == coordToMm(state, paramVector(args))
             curZeroPos == [i \in Axes |-> state._destMm[i] - state._hostZeroOffset[i]]
             pos == [i \in Axes |-> IF i \in DOMAIN args THEN cmdPosMm[i] ELSE curZeroPos[i]]
         IN [setHostZeroPos(state, pos) EXCEPT !._destMm = pos]

\* G92, state.h:558-571.
executeG92(state, args) ==
    IF DOMAIN args = {} THEN setHostZeroPos(state, [i \in Axes |-> 0])
    ELSE LET cmdPosMm == coordToMm(state, paramVector(args))
             curZeroPos == [i \in Axes |-> state._destMm[i] - state._hostZeroOffset[i]]
         IN setHostZeroPos(state, [i \in Axes |-> IF i \in DOMAIN args THEN cmdPosMm[i]
                                               ELSE curZeroPos[i]])

\* G90, G91, M82, M83: state.h:550-557, 592-597.
setModes(state, op) ==
    CASE op = "G90" -> [state EXCEPT !._positionMode = POS_ABSOLUTE,
                                  !._extruderPosMode = POS_ABSOLUTE]
      [] op = "G91" -> [state EXCEPT !._positionMode = POS_RELATIVE,
                                  !._extruderPosMode = POS_RELATIVE]
      [] op = "M82" -> [state EXCEPT !._extruderPosMode = POS_ABSOLUTE]
      [] op = "M83" -> [state EXCEPT !._extruderPosMode = POS_RELATIVE]

(***************************************************************************)
(* gparse::Com (com.h declares it; the implementation is not part of the   *)
(* sources and is modelled from the comments of com.h:119-134).            *)
(***************************************************************************)
Com(id, input, dieOnEof) ==
    [id |-> id, input |-> input, _parsed |-> NoCmd, _dieOnEof |-> dieOnEof]

\* The variant of tendCom that parses the next line although a command awaits
\* its reply.
tendCom_parsesAlways(com) ==
    IF com.input = <<>> THEN com
    ELSE [com EXCEPT !._parsed = Head(com.input), !.input = Tail(com.input)]

\* com.h:119-120: parse the next line unless a command awaits its reply.
tendCom(com) ==
    IF com._parsed # NoCmd \/ com.input = <<>> THEN com
    ELSE [com EXCEPT !._parsed = Head(com.input), !.input = Tail(com.input)]

\* com.h:129-132.
getCommand(com) == com._parsed

\* com.h:125-127.
isAtEof(com) == com._dieOnEof /\ com.input = <<>>

\* com.h:134.
reply(com) == [com EXCEPT !._parsed = NoCmd]

(***************************************************************************)
(* Scheduler (not part of the sources; modelled from the specification,    *)
(* 4.5).                                                                   *)
(***************************************************************************)
isRoomInBuffer(queue) == Len(queue) < SchedBufferSize

\* Scheduler::queue: insert by deadline, after the events with the same one.
queueEvent(queue, evt) ==
    LET before == SelectSeq(queue, LAMBDA e : e.time <= evt.time)
        after == SelectSeq(queue, LAMBDA e : e.time > evt.time)
    IN before \o <<evt>> \o after

(***************************************************************************)
(* MotionPlanner::peekNextEvent / consumeNextEvent (the planner of the     *)
(* newer State; not part of the sources): the next event is computed by    *)
(* nextStep when it is first asked for and kept until it is consumed.      *)
(* A configuration c gathers everything the handlers read and write.       *)
(***************************************************************************)
cachePeek(c, r) ==
    LET h == c.hist
    IN [c EXCEPT !.planner = r.p,
                 !.peekedEvt = r.evt,
                 !.hist = IF r.evt.null THEN h
                          ELSE [h EXCEPT !.minCur = IF @ = NaN \/ r.evt.time < @
                                                    THEN r.evt.time ELSE @,
                                         !.maxCur = IF @ = NaN \/ r.evt.time > @
                                                    THEN r.evt.time ELSE @]]

peekNextEvent(c) ==
    IF ~c.peekedEvt.null THEN c
    ELSE Only({cachePeek(c, r) : r \in {nextStep(c.planner, endstops(c.planner, c.endstopDist))}})

consumeNextEvent(c) == [c EXCEPT !.peekedEvt = NullEvent]

Max(a, b) == IF a > b THEN a ELSE b

\* History: a new segment starts at time start.
noteSegment(h, who, ready, start, last, t) ==
    [h EXCEPT !.notReady = @ \/ ~ready,
              !.moveFrom = who,
              !.start = [start |-> start, last |-> last, now |-> t],
              !.maxPrev = IF h.maxCur = NaN THEN @ ELSE Max(@, h.maxCur),
              !.minCur = NaN,
              !.maxCur = NaN,
              !.segments = @ + 1,
              !.coldMove = @ \/ ~h.hot]

\* History: a move is planned by a machine that homes before its first
\* movement; unhomed, homing and busy tell what was not yet so, deactivated
\* that the motors have been deactivated since the machine was last homed.
noteEarly(c, early) ==
    IF ~c.machine.doHomeBeforeFirstMovement THEN early
    ELSE [unhomed |-> early.unhomed \/ ~c.st._isHomed,
          homing |-> early.homing \/ c.st._isHoming \/ ~c.hist.returned.any,
          busy |-> early.busy \/ ~readyForNextMove(c.planner),
          deactivated |-> early.deactivated \/ c.hist.deactivated]

\* The variant of queueMovement that starts every segment at the current time.
queueMovement_startNow(c, dest, who) ==
    LET startTime == c.now
    IN [c EXCEPT !.st._destMm = dest,
                 !.planner = moveTo(c.planner, startTime, dest, c.st._destMoveRatePrimitive,
                                    -MaxExtrudeRate, MaxExtrudeRate),
                 !.hist = [noteSegment(c.hist, who, readyForNextMove(c.planner), startTime,
                                       c.st._lastMotionPlannedTime, c.now)
                              EXCEPT !.outside = @ \/ ~inEnvelope(dest),
                                     !.early = noteEarly(c, @)]]

\* state.h:701-710.
queueMovement(c, dest, who) ==
    LET startTime == Max(c.st._lastMotionPlannedTime, c.now)
    IN [c EXCEPT !.st._destMm = dest,
                 !.planner = moveTo(c.planner, startTime, dest, c.st._destMoveRatePrimitive,
                                    -MaxExtrudeRate, MaxExtrudeRate),
                 !.hist = [noteSegment(c.hist, who, readyForNextMove(c.planner), startTime,
                                       c.st._lastMotionPlannedTime, c.now)
                              EXCEPT !.outside = @ \/ ~inEnvelope(dest),
                                     !.early = noteEarly(c, @)]]

\* Scheduler::setDefaultMaxSleep and Scheduler::setMaxSleep(1 ms) on
\* State::scheduler.
DefaultMaxSleep == "default"
OneMillisecond == "1ms"

\* state.h:293-300.
setMoveBuffering(c, doBufferMoves) ==
    [c EXCEPT !.st._doBufferMoves = doBufferMoves,
              !.st.scheduler.maxSleep = IF doBufferMoves THEN DefaultMaxSleep
                                        ELSE OneMillisecond]

\* CoordMapInterface::moveTo, state.h:150-156, as the home routine uses it:
\* queue the homing motion and ask for the event loop to exit when it is
\* complete.  The caller then enters State::eventLoop().  The home routine
\* moves every axis towards its endstop until the endstop triggers; the
\* planner of the sources plans that motion with homeEndstops
\* (motionplanner.h:154-165), started like queueMovement starts a move
\* (state.h:708).
CoordMapInterface_moveTo(c) ==
    LET startTime == Max(c.st._lastMotionPlannedTime, c.now)
        \* A homed machine knows how far its carriages are from the endstops.
        dist == IF c.st._isHomed
                THEN [i \in HomeAxes |-> Max(0, c.planner._destMechanicalPos[i])]
                ELSE c.endstopDist
    IN [c EXCEPT !.endstopDist = dist,
                 !.planner = homeEndstops(c.planner, startTime, MoveRates.home,
                                          endstopsAtStart(dist)),
                 !.st._doExitEventLoopAfterMoveCompletes = TRUE,
                 !.hist = noteSegment(c.hist, "home", readyForNextMove(c.planner), startTime,
                                      c.st._lastMotionPlannedTime, c.now)]

\* State::homeEndstops up to the point where the home routine blocks
\* (state.h:712-719); homeEndstopsTail is the rest (721-723).
homeEndstopsHead(c) ==
    CoordMapInterface_moveTo(
        setMoveBuffering([c EXCEPT !.st._isHoming = TRUE,
                                   !.hist.atCall = [buffering |-> c.st._doBufferMoves,
                                                    maxSleep |-> c.st.scheduler.maxSleep]],
                         FALSE))

\* History: the blocking moveTo has just returned.
noteReturn(c) ==
    [any |-> TRUE,
     idle |-> c.peekedEvt.null /\ readyForNextMove(c.planner),
     flag |-> c.st._doExitEventLoopAfterMoveCompletes]

homeEndstopsTail(c, restoreMoveBuffering) ==
    [setMoveBuffering(c, restoreMoveBuffering) EXCEPT !.st._isHomed = TRUE,
                                                      !.st._isHoming = FALSE,
                                                      !.hist.returned = noteReturn(c),
                                                      !.hist.deactivated = FALSE]

(***************************************************************************)
(* Code that is suspended while a nested event loop runs is kept as a list *)
(* of the pieces still to run.  A piece returns the new configuration and, *)
(* when it has entered a nested event loop, the pieces its caller must run *)
(* once that loop has returned.                                            *)
(***************************************************************************)
NoRef == [idx |-> 0, id |-> 0]

Piece(l) == [l |-> l, cmd |-> NoCmd, ref |-> NoRef, v |-> FALSE]

Done(c) == [c |-> c, blocked |-> FALSE, cont |-> <<>>]

Blocked(c, cont) == [c |-> c, blocked |-> TRUE, cont |-> cont]

\* The reply callback of tendComChannel (state.h:451-459): com.reply(resp) on
\* the channel the command came from.  com is a reference into
\* gcodeFileStack; when that element has been destroyed in the meantime the
\* call has undefined behaviour, and the reply may or may not get out
\* (lands).
replyTo(c, line, ref, lands) ==
    LET alive == ref.idx <= Len(c.files) /\ c.files[ref.idx].id = ref.id
    IN IF alive
       THEN [c EXCEPT !.files[ref.idx] = reply(@), !.hist.replies[line] = @ + 1]
       ELSE [c EXCEPT !.hist.replies[line] = IF lands THEN @ + 1 ELSE @,
                      !.hist.dangling = TRUE]

markExecuted(c, line) == [c EXCEPT !.hist.executed[line] = TRUE]

\* IODriver::getHotendTemp / getHotendTargetTemp / setHotendTemp on
\* State::ioDrivers (state.h:206); the drivers are not part of the sources.
getHotendTemp(ioDrivers) == ioDrivers.hotendTemp

getHotendTargetTemp(ioDrivers) == ioDrivers.hotendTarget

setHotendTemp(ioDrivers, t) == [ioDrivers EXCEPT !.hotendTarget = t]

\* IODriver::setBedTemp, state.h:678.
setBedTemp(ioDrivers, t) == [ioDrivers EXCEPT !.bedTarget = t]

\* state.h:746-748: every driver that is a fan gets the duty cycle, counted
\* here in 256ths.
setFanRate(ioDrivers, rate) == [ioDrivers EXCEPT !.fanRate = rate]

\* IODriver::unlockAllAxis: the stepper motors are no longer held.
unlockAllAxis(ioDrivers) == [ioDrivers EXCEPT !.locked = FALSE]

\* The variant of isHotendReady that stops waiting without measuring.
isHotendReady_unmeasured(c) ==
    [c |-> [c EXCEPT !.st._isWaitingForHotend = FALSE], ready |-> TRUE]

\* state.h:726-734: returns the configuration, with _isWaitingForHotend
\* measured again, and the answer.
isHotendReady(c) ==
    LET waiting == /\ c.st._isWaitingForHotend
                   /\ getHotendTemp(c.st.ioDrivers) < getHotendTargetTemp(c.st.ioDrivers)
    IN [c |-> [c EXCEPT !.st._isWaitingForHotend = waiting], ready |-> ~waiting]

\* G0/G1 from the destination onwards, state.h:481-494.
executeG1Tail(c, cmd, ref, lands) ==
    LET trueDest == g1Dest(c.st, 0 :> cmd.x)
    IN Only({markExecuted(replyTo(c1, cmd.line, ref, lands), cmd.line)
             : c1 \in {queueMovement(c, trueDest, "G1")}})

\* The variant of executeG1Ready that does not ask whether the machine is
\* homing.
executeG1Ready_ignoresHoming(h, cmd, ref, lands) ==
    IF ~h.ready THEN Done(h.c)
    ELSE IF ~h.c.st._isHomed /\ h.c.machine.doHomeBeforeFirstMovement
    THEN Blocked(homeEndstopsHead(h.c),
                 <<[Piece("homeTail") EXCEPT !.v = h.c.st._doBufferMoves],
                   [Piece("g1Tail") EXCEPT !.cmd = cmd, !.ref = ref]>>)
    ELSE Done(executeG1Tail(h.c, cmd, ref, lands))

\* The variant of executeG1Ready that never homes on its own.
executeG1Ready_neverHomes(h, cmd, ref, lands) ==
    IF ~h.ready THEN Done(h.c)
    ELSE IF h.c.st._isHoming THEN Done(h.c)
    ELSE Done(executeG1Tail(h.c, cmd, ref, lands))

\* G0/G1 once the planner is ready, state.h:471-494; h is what isHotendReady
\* returned.
executeG1Ready(h, cmd, ref, lands) ==
    IF ~h.ready THEN Done(h.c)
    ELSE IF h.c.st._isHoming THEN Done(h.c)
    ELSE IF ~h.c.st._isHomed /\ h.c.machine.doHomeBeforeFirstMovement
    THEN Blocked(homeEndstopsHead(h.c),
                 <<[Piece("homeTail") EXCEPT !.v = h.c.st._doBufferMoves],
                   [Piece("g1Tail") EXCEPT !.cmd = cmd, !.ref = ref]>>)
    ELSE Done(executeG1Tail(h.c, cmd, ref, lands))

\* The variant of executeG1 that does not ask the planner whether it is ready.
executeG1_unguarded(c, cmd, ref, lands) ==
    executeG1Ready(isHotendReady(c), cmd, ref, lands)

\* G0/G1, state.h:467-494.
executeG1(c, cmd, ref, lands) ==
    IF ~readyForNextMove(c.planner) THEN Done(c)
    ELSE executeG1Ready(isHotendReady(c), cmd, ref, lands)

\* G28 once the planner is ready, state.h:541-549.
executeG28Ready(h, cmd, ref, lands) ==
    IF ~h.ready THEN Done(h.c)
    ELSE IF h.c.st._isHoming THEN Done(h.c)
    ELSE Blocked(homeEndstopsHead(replyTo(h.c, cmd.line, ref, lands)),
                 <<[Piece("homeTail") EXCEPT !.v = h.c.st._doBufferMoves],
                   [Piece("executed") EXCEPT !.cmd = cmd]>>)

\* G28, state.h:537-549.
executeG28(c, cmd, ref, lands) ==
    IF ~readyForNextMove(c.planner) THEN Done(c)
    ELSE executeG28Ready(isHotendReady(c), cmd, ref, lands)

\* M0, state.h:573-576.
executeM0(c, cmd, ref, lands) ==
    Done(markExecuted(replyTo([c EXCEPT !.st._doShutdownAfterMoveCompletes = TRUE],
                              cmd.line, ref, lands), cmd.line))

\* M105, state.h:620-627.
executeM105(c, cmd, ref, lands) ==
    Done(markExecuted(replyTo(c, cmd.line, ref, lands), cmd.line))

\* History: the hotend has to reach its target before the next movement.
noteWait(c) ==
    [c EXCEPT !.hist.hot =
                  getHotendTemp(c.st.ioDrivers) >= getHotendTargetTemp(c.st.ioDrivers)]

\* M109, state.h:638-646.  The S parameter is cmd.x; NaN when it is absent.
executeM109(c, cmd, ref, lands) ==
    LET c1 == [c EXCEPT !.st.ioDrivers = IF IsNaN(cmd.x) THEN @ ELSE setHotendTemp(@, cmd.x),
                        !.st._isWaitingForHotend = TRUE]
    IN Done(markExecuted(replyTo(noteWait(c1), cmd.line, ref, lands), cmd.line))

\* M116, state.h:667-669.
executeM116(c, cmd, ref, lands) ==
    Done(markExecuted(replyTo(noteWait([c EXCEPT !.st._isWaitingForHotend = TRUE]),
                              cmd.line, ref, lands), cmd.line))

\* The variant of executeM112 that waits, like a movement, for the planner.
executeM112_guarded(c, cmd, ref, lands) ==
    IF ~readyForNextMove(c.planner) THEN Done(c)
    ELSE Done([markExecuted(replyTo(c, cmd.line, ref, lands), cmd.line) EXCEPT
                  !.running = FALSE,
                  !.hist.exit = [code |-> 1, line |-> cmd.line]])

\* M112, state.h:658-660: reply, then exit(1).
executeM112(c, cmd, ref, lands) ==
    Done([markExecuted(replyTo(c, cmd.line, ref, lands), cmd.line) EXCEPT
             !.running = FALSE,
             !.hist.exit = [code |-> 1, line |-> cmd.line]])

\* M18 and M84, state.h:580-582 and 598-600.
executeM18(c, cmd, ref, lands) ==
    Done(markExecuted(replyTo([c EXCEPT !.st.ioDrivers = unlockAllAxis(@),
                                        !.hist.deactivated = TRUE],
                              cmd.line, ref, lands), cmd.line))

\* M32, state.h:588-591: reply, then push a channel that reads the named
\* g-code file to its end.  FileSystem is not part of the sources: the
\* machine's filesystem gives the commands of each file.
executeM32(c, cmd, ref, lands) ==
    Done(markExecuted(
        [replyTo(c, cmd.line, ref, lands) EXCEPT
            !.files = Append(@, Com(c.hist.opened + 2, c.machine.filesystem[cmd.x], TRUE)),
            !.hist.opened = @ + 1],
        cmd.line))

\* History: M99 from channel ref has popped the top of the stack files.
noteM99(h, cmd, ref, files, persistent) ==
    [h EXCEPT !.m99 = [main |-> IF Len(files) = 1 THEN cmd.line ELSE @.main,
                       other |-> @.other \/ (ref.idx > 1 /\ ref.idx # Len(files)),
                       root |-> @.root \/ (persistent /\ Len(files) = 1)]]

\* M99, state.h:601-612.
executeM99(c, cmd, ref, lands) ==
    IF c.files = <<>>
    THEN Done(markExecuted(replyTo([c EXCEPT !.st._doShutdownAfterMoveCompletes = TRUE],
                                   cmd.line, ref, lands), cmd.line))
    ELSE Done(markExecuted(
             [replyTo(c, cmd.line, ref, lands) EXCEPT
                 !.files = SubSeq(@, 1, Len(@) - 1),
                 !.hist = noteM99(@, cmd, ref, c.files, c.st._isRootComPersistent)],
             cmd.line))

\* The commands that set a field of State or of a driver and reply, and
\* those that only reply: G20, G21 (state.h:531-536), G90, G91, G92
\* (550-572), M82, M83 (592-597), M104 (613-619), M106, M107 (628-637),
\* M110, M111, M115, M117 (647-672), M140 (673-680) and T (681-683).  The
\* parameter (X of G92, S otherwise) is cmd.x, NaN when it is absent; the
\* log levels M111 sets are not modelled.
applySetting(state, cmd) ==
    CASE cmd.op = "G20" -> setUnitMode(state, UNIT_IN)
      [] cmd.op = "G21" -> setUnitMode(state, UNIT_MM)
      [] cmd.op \in {"G90", "G91", "M82", "M83"} -> setModes(state, cmd.op)
      [] cmd.op = "G92" -> executeG92(state, IF IsNaN(cmd.x) THEN <<>> ELSE 0 :> cmd.x)
      [] cmd.op = "M104" ->
            [state EXCEPT !.ioDrivers = IF IsNaN(cmd.x) THEN @ ELSE setHotendTemp(@, cmd.x)]
      [] cmd.op = "M106" ->
            [state EXCEPT !.ioDrivers =
                setFanRate(@, IF IsNaN(cmd.x) THEN 256 ELSE IF cmd.x > 1 THEN cmd.x
                              ELSE 256 * cmd.x)]
      [] cmd.op = "M107" -> [state EXCEPT !.ioDrivers = setFanRate(@, 0)]
      [] cmd.op = "M140" ->
            [state EXCEPT !.ioDrivers = IF IsNaN(cmd.x) THEN @ ELSE setBedTemp(@, cmd.x)]
      [] cmd.op \in {"M110", "M111", "M115", "M117", "T"} -> state

SettingOpcodes ==
    {"G20", "G21", "G90", "G91", "G92", "M82", "M83", "M104", "M106", "M107", "M110", "M111",
     "M115", "M117", "M140", "T"}

executeSetting(c, cmd, ref, lands) ==
    Done(markExecuted(replyTo([c EXCEPT !.st = applySetting(@, cmd)], cmd.line, ref, lands),
                      cmd.line))

\* Any other opcode, state.h:684-686: throw std::runtime_error.  Nothing in
\* State catches it: the exception leaves execute before reply is called,
\* then tendComChannel, onIdleCpu and the event loop, and the process ends.
executeUnrecognized(c, cmd, ref, lands) ==
    Done([c EXCEPT !.running = FALSE, !.hist.thrown = cmd.line])

\* state.h:465-687.
execute(c, cmd, ref, lands) ==
    CASE cmd.op = "G1" -> executeG1(c, cmd, ref, lands)
      [] cmd.op = "G28" -> executeG28(c, cmd, ref, lands)
      [] cmd.op = "M0" -> executeM0(c, cmd, ref, lands)
      [] cmd.op \in {"M18", "M84"} -> executeM18(c, cmd, ref, lands)
      [] cmd.op = "M32" -> executeM32(c, cmd, ref, lands)
      [] cmd.op = "M99" -> executeM99(c, cmd, ref, lands)
      [] cmd.op = "M105" -> executeM105(c, cmd, ref, lands)
      [] cmd.op = "M109" -> executeM109(c, cmd, ref, lands)
      [] cmd.op = "M112" -> executeM112(c, cmd, ref, lands)
      [] cmd.op = "M116" -> executeM116(c, cmd, ref, lands)
      [] cmd.op \in SettingOpcodes -> executeSetting(c, cmd, ref, lands)
      [] OTHER -> executeUnrecognized(c, cmd, ref, lands)

\* The commands that are neither a movement nor a homing and do not open or
\* close a channel or stop the machine.
NonMovementOpcodes == SettingOpcodes \cup {"M105", "M109", "M116"}

\* History: a movement command was refused although the planner was ready,
\* the machine was not homing and the hotend was at its target; what a
\* movement command did that was presented while the machine was homing; and
\* whether a command that is not a movement changed the planner (with the
\* mechanical position), the peeked step or the destination.
noteTend(c, cmd, r) ==
    LET refused == /\ cmd.op \in {"G1", "G28"}
                   /\ readyForNextMove(c.planner)
                   /\ ~c.st._isHoming
                   /\ getHotendTemp(c.st.ioDrivers) >= getHotendTargetTemp(c.st.ioDrivers)
                   /\ ~r.blocked
                   /\ r.c.hist.replies[cmd.line] = c.hist.replies[cmd.line]
        homing == c.st._isHoming /\ cmd.op \in {"G1", "G28"}
        setting == cmd.op \in NonMovementOpcodes
        moved == \/ r.blocked
                 \/ r.c.st._destMm # c.st._destMm
                 \/ r.c.planner # c.planner
                 \/ r.c.peekedEvt # c.peekedEvt
                 \/ r.c.queue # c.queue
        touched == \/ r.blocked
                   \/ r.c.st._destMm # c.st._destMm
                   \/ r.c.planner # c.planner
                   \/ r.c.peekedEvt # c.peekedEvt
                   \/ r.c.hist.replies # c.hist.replies
                   \/ r.c.files # c.files
                   \/ r.c.st._isHoming # c.st._isHoming
    IN [r EXCEPT !.c.hist.refusedHot = @ \/ refused,
                 !.c.hist.homing = [tended |-> @.tended \/ homing,
                                    idle |-> @.idle \/ (homing /\ readyForNextMove(c.planner)),
                                    touched |-> @.touched \/ (homing /\ touched)],
                 !.c.hist.setting = [moved |-> @.moved \/ (setting /\ moved),
                                     busy |-> @.busy \/ (/\ cmd.op \in SettingOpcodes
                                                          /\ ~readyForNextMove(c.planner))]]

\* state.h:446-463.  The history notes a channel read although it is neither
\* the top of the stack nor the persistent root.
tendComChannel(c, idx, lands) ==
    LET com == tendCom(c.files[idx])
        c1 == [c EXCEPT !.files[idx] = com,
                        !.hist.readBelow = @ \/ (/\ idx < Len(c.files)
                                                 /\ ~(idx = 1 /\ c.st._isRootComPersistent))]
    IN IF com._parsed = NoCmd THEN Done(c1)
       ELSE Only({noteTend(c1, getCommand(com), r)
                  : r \in {execute(c1, getCommand(com), [idx |-> idx, id |-> com.id], lands)}})

\* state.h:430-432.
RECURSIVE popFilesAtEof(_)
popFilesAtEof(files) ==
    IF files # <<>> /\ isAtEof(files[Len(files)])
    THEN popFilesAtEof(SubSeq(files, 1, Len(files) - 1))
    ELSE files

\* History: a channel opened by M32 is popped at EOF while its last command
\* still awaits its reply.
pendingAtEof(files) ==
    \E i \in (Len(popFilesAtEof(files)) + 1)..Len(files) :
       files[i].id > 1 /\ files[i]._parsed # NoCmd

(***************************************************************************)
(* common/tupleutil.h.  A tuple of IoDrivers is given as the tuple of what *)
(* each driver's onIdleCpu answers when it is called; the reduction        *)
(* returns its value and the indices (from 0, as std::get counts) the      *)
(* handler was called on, in the order of the calls.                       *)
(***************************************************************************)
\* The variant of callOnAllReduce that does not call the handler once the
\* previous elements have reduced to true.
RECURSIVE callOnAllReduce_shortCircuit(_, _, _, _)
callOnAllReduce_shortCircuit(t, IdxPlusOne, r, d) ==
    IF IdxPlusOne = 0 THEN [v |-> d, calls |-> <<>>]
    ELSE LET prev == callOnAllReduce_shortCircuit(t, IdxPlusOne - 1, r, d)
         IN IF prev.v THEN prev
            ELSE [v |-> r[prev.v, t[IdxPlusOne]],
                  calls |-> Append(prev.calls, IdxPlusOne - 1)]

\* __callOnAllReduce, tupleutil.h:38-51: the result of all previous items,
\* then the call on this index, then the reduction of the two.
RECURSIVE callOnAllReduce(_, _, _, _)
callOnAllReduce(t, IdxPlusOne, r, d) ==
    IF IdxPlusOne = 0 THEN [v |-> d, calls |-> <<>>]
    ELSE LET prev == callOnAllReduce(t, IdxPlusOne - 1, r, d)
             cur == t[IdxPlusOne]
         IN [v |-> r[prev.v, cur], calls |-> Append(prev.calls, IdxPlusOne - 1)]

\* The variant of tupleReduce that stops calling the handler at the first
\* element that makes the reduction true.
tupleReduce_shortCircuit(t, r, d) == callOnAllReduce_shortCircuit(t, Len(t), r, d)

\* tupleutil.h:53-55.
tupleReduce(t, r, d) == callOnAllReduce(t, Len(t), r, d)

\* The lambda of tupleutil.h:73.
LogicalOr == [a \in BOOLEAN, b \in BOOLEAN |-> a \/ b]

\* tupleutil.h:71-74.
tupleReduceLogicalOr(t) == tupleReduce(t, LogicalOr, FALSE)

\* History: how the last onIdleCpu ended ("returned", "exited" the event
\* loop, "suspended" in a nested event loop, or only "entered"), and for one
\* that returned: the drivers it called, whether a driver before the last
\* one answered true, and whether it returned true exactly when the motion
\* or a driver needed more CPU.
NoPoll(end) == [end |-> end, calls |-> <<>>, early |-> FALSE, ok |-> TRUE]

\* state.h:437-438: every driver's onIdleCpu is called (State__onIdleCpu,
\* state.h:369-375) and answers polled[i]; the call returns whether the
\* motion or a driver needs more CPU.  The history keeps the calls made.
returnFromIdle(c, motionNeedsCpu, polled) ==
    LET driversNeedCpu == tupleReduceLogicalOr(polled)
        wanted == motionNeedsCpu \/ \E i \in DOMAIN polled : polled[i]
    IN [c EXCEPT !.needCpu = motionNeedsCpu \/ driversNeedCpu.v,
                 !.hist.poll = [end |-> "returned", calls |-> driversNeedCpu.calls,
                                early |-> \E i \in 1..(Len(polled) - 1) : polled[i],
                                ok |-> (motionNeedsCpu \/ driversNeedCpu.v) = wanted]]

runPiece(c, piece, lands, polled) ==
    CASE piece.l = "tendFront" ->
            IF c.files # <<>> /\ c.st._isRootComPersistent
            THEN tendComChannel(c, 1, lands) ELSE Done(c)
      [] piece.l = "tendBack" ->
            IF c.files # <<>> THEN tendComChannel(c, Len(c.files), lands) ELSE Done(c)
      [] piece.l = "popEof" -> Done([c EXCEPT !.files = popFilesAtEof(@),
                                              !.hist.lostAtEof = @ \/ pendingAtEof(c.files)])
      [] piece.l = "return" -> Done(returnFromIdle(c, piece.v, polled))
      [] piece.l = "homeTail" -> Done(homeEndstopsTail(c, piece.v))
      [] piece.l = "g1Tail" -> Done(executeG1Tail(c, piece.cmd, piece.ref, lands))
      [] piece.l = "executed" -> Done(markExecuted(c, piece.cmd.line))

\* Run the pieces in order; a piece that enters a nested event loop
\* (State::eventLoop, state.h:441-444) suspends the rest.
RECURSIVE runPieces(_, _, _, _)
afterPiece(r, rest, lands, polled) ==
    IF ~r.c.running THEN r.c
    ELSE IF r.blocked
    THEN [r.c EXCEPT !.frames = Append(@, r.cont \o rest), !.needCpu = TRUE,
                     !.hist.poll.end = "suspended"]
    ELSE runPieces(r.c, rest, lands, polled)

runPieces(c, todo, lands, polled) ==
    IF todo = <<>> THEN c
    ELSE Only({afterPiece(r, Tail(todo), lands, polled)
               : r \in {runPiece(c, Head(todo), lands, polled)}})

\* The variant of queueNextEvent that queues the next motion event whether or
\* not moves are buffered.
queueNextEvent_alwaysBuffers(c1) ==
    LET ioEvt == IF c1.io = <<>> THEN NullEvent ELSE Head(c1.io)
        motionEvt == c1.peekedEvt
        doServiceIoDriver ==
            ~ioEvt.null /\ (motionEvt.null \/ ioEvt.time <= motionEvt.time)
        doServiceMotion == ~doServiceIoDriver /\ ~motionEvt.null
        c2 == IF doServiceIoDriver
              THEN [c1 EXCEPT !.queue = queueEvent(@, ioEvt), !.io = Tail(@)]
              ELSE IF doServiceMotion
              THEN [consumeNextEvent(c1) EXCEPT
                       !.queue = queueEvent(@, motionEvt),
                       !.st._lastMotionPlannedTime = motionEvt.time]
              ELSE c1
    IN [c |-> c2, consumed |-> doServiceMotion,
        motionNeedsCpu |-> doServiceMotion /\ isRoomInBuffer(c2.queue)]

\* state.h:380-402, after the planner's next event has been peeked (c1):
\* queue the io driver's event or the motion event, whichever is due first.
queueNextEvent(c1) ==
    LET ioEvt == IF c1.io = <<>> THEN NullEvent ELSE Head(c1.io)
        motionEvt == c1.peekedEvt
        doServiceIoDriver ==
            ~ioEvt.null /\ (motionEvt.null \/ ioEvt.time <= motionEvt.time)
        doServiceMotion ==
            /\ ~doServiceIoDriver
            /\ c1.st._doBufferMoves \/ c1.st._lastMotionPlannedTime <= c1.now
            /\ ~motionEvt.null
        c2 == IF doServiceIoDriver
              THEN [c1 EXCEPT !.queue = queueEvent(@, ioEvt), !.io = Tail(@)]
              ELSE IF doServiceMotion
              THEN [consumeNextEvent(c1) EXCEPT
                       !.queue = queueEvent(@, motionEvt),
                       !.st._lastMotionPlannedTime = motionEvt.time]
              ELSE c1
    IN [c |-> c2, consumed |-> doServiceMotion,
        motionNeedsCpu |-> doServiceMotion /\ isRoomInBuffer(c2.queue)]

\* The variant of checkMoveComplete that resets the shutdown flag as well when
\* it asks the event loop to exit.
checkMoveComplete_resetsShutdown(c, q, c3) ==
    LET exit == /\ c3.peekedEvt.null
                /\ c3.st._doShutdownAfterMoveCompletes
                     \/ c3.st._doExitEventLoopAfterMoveCompletes
                /\ ~q.motionNeedsCpu
    IN [c |-> [c3 EXCEPT !.st._doExitEventLoopAfterMoveCompletes = IF exit THEN FALSE ELSE @,
                         !.st._doShutdownAfterMoveCompletes = IF exit THEN FALSE ELSE @,
                         !.hist.idle = [room |-> isRoomInBuffer(c.queue),
                                        queued |-> Len(c3.queue) - Len(c.queue),
                                        consumed |-> q.consumed]],
        motionNeedsCpu |-> q.motionNeedsCpu, exit |-> exit]

\* The variant of checkMoveComplete that does not look at the planner's next
\* event before it asks the event loop to exit.
checkMoveComplete_ignorePeek(c, q, c3) ==
    LET exit == /\ c3.st._doShutdownAfterMoveCompletes
                     \/ c3.st._doExitEventLoopAfterMoveCompletes
                /\ ~q.motionNeedsCpu
    IN [c |-> [c3 EXCEPT !.st._doExitEventLoopAfterMoveCompletes = IF exit THEN FALSE ELSE @,
                         !.hist.idle = [room |-> isRoomInBuffer(c.queue),
                                        queued |-> Len(c3.queue) - Len(c.queue),
                                        consumed |-> q.consumed]],
        motionNeedsCpu |-> q.motionNeedsCpu, exit |-> exit]

\* state.h:403-415, after the planner's next event has been peeked again
\* (c3): the end of a move that the event loop was asked to exit after.
\* c is the configuration onIdleCpu was called in and q what it has queued.
checkMoveComplete(c, q, c3) ==
    LET exit == /\ c3.peekedEvt.null
                /\ c3.st._doShutdownAfterMoveCompletes
                     \/ c3.st._doExitEventLoopAfterMoveCompletes
                /\ ~q.motionNeedsCpu
    IN [c |-> [c3 EXCEPT !.st._doExitEventLoopAfterMoveCompletes = IF exit THEN FALSE ELSE @,
                         !.hist.idle = [room |-> isRoomInBuffer(c.queue),
                                        queued |-> Len(c3.queue) - Len(c.queue),
                                        consumed |-> q.consumed]],
        motionNeedsCpu |-> q.motionNeedsCpu, exit |-> exit]

\* The variant of serviceRoom that never asks the event loop to exit.
serviceRoom_neverExit(c, q0) ==
    Only({Only({[checkMoveComplete(c, q, c3) EXCEPT !.exit = FALSE] : c3 \in {peekNextEvent(q.c)}})
          : q \in {q0}})

serviceRoom(c, q0) ==
    Only({Only({checkMoveComplete(c, q, c3) : c3 \in {peekNextEvent(q.c)}}) : q \in {q0}})

\* The variant of serviceEvents that does not ask the scheduler for room.
serviceEvents_noRoomCheck(c) ==
    Only({serviceRoom(c, queueNextEvent(c1)) : c1 \in {peekNextEvent(c)}})

\* State::onIdleCpu, state.h:378-416: offer the scheduler the next event.
serviceEvents(c) ==
    IF isRoomInBuffer(c.queue)
    THEN Only({serviceRoom(c, queueNextEvent(c1)) : c1 \in {peekNextEvent(c)}})
    ELSE [c |-> [c EXCEPT !.hist.idle = [room |-> FALSE, queued |-> 0, consumed |-> FALSE]],
          motionNeedsCpu |-> FALSE, exit |-> FALSE]

\* scheduler.exitEventLoop() followed by the return of the innermost event
\* loop: the outermost one ends the program, a nested one resumes its caller.
exitEventLoop(c, lands, polled) ==
    IF c.frames = <<>> THEN [c EXCEPT !.running = FALSE]
    ELSE runPieces([c EXCEPT !.frames = SubSeq(@, 1, Len(@) - 1)],
                   c.frames[Len(c.frames)], lands, polled)

\* state.h:417-439, after the events have been served (r).
tendChannels(r, wide, lands, polled) ==
    LET tending == IF wide THEN <<Piece("tendFront"), Piece("tendBack"), Piece("popEof")>>
                   ELSE <<>>
    IN IF r.exit THEN exitEventLoop([r.c EXCEPT !.hist.poll.end = "exited"], lands, polled)
       ELSE runPieces(r.c,
                      tending \o <<[Piece("return") EXCEPT !.v = r.motionNeedsCpu]>>,
                      lands, polled)

\* State::onIdleCpu, state.h:377-439.  polled is what the drivers answer
\* when their onIdleCpu is called.  The history starts the record of this
\* call.
onIdleCpu(c, wide, lands, polled) ==
    Only({tendChannels(r, wide, lands, polled)
          : r \in {serviceEvents([c EXCEPT !.hist.poll = NoPoll("entered")])}})

(***************************************************************************)
(* The machine as a state machine.                                         *)
(***************************************************************************)
Cfg ==
    [planner |-> planner, peekedEvt |-> peekedEvt, endstopDist |-> endstopDist, st |-> st,
     files |-> gcodeFileStack, queue |-> schedQueue, io |-> ioPending, frames |-> frames,
     needCpu |-> needCpu, running |-> running, now |-> now, machine |-> machine,
     hist |-> hist]

SetCfg(c) ==
    /\ planner' = c.planner
    /\ peekedEvt' = c.peekedEvt
    /\ endstopDist' = c.endstopDist
    /\ st' = c.st
    /\ gcodeFileStack' = c.files
    /\ schedQueue' = c.queue
    /\ ioPending' = c.io
    /\ frames' = c.frames
    /\ needCpu' = c.needCpu
    /\ running' = c.running
    /\ hist' = c.hist
    /\ UNCHANGED <<now, machine, plannerHistVars>>

Ops == {[op |-> "G1", x |-> 1], [op |-> "G1", x |-> 2], [op |-> "G28", x |-> 0],
        [op |-> "M105", x |-> 0], [op |-> "M0", x |-> 0]}

\* The g-code programs: every sequence of at most two commands.
Programs == {<<>>} \cup {<<a>> : a \in Ops} \cup {<<a, b>> : a \in Ops, b \in Ops}

numbered(prog) == [i \in 1..Len(prog) |-> [op |-> prog[i].op, x |-> prog[i].x, line |-> i]]

\* An IO driver event (a heater's PWM edge).
IoEvent == [null |-> FALSE, time |-> TicksPerSecond \div 2, axis |-> -1, dir |-> StepForward]

\* At the start of the first homing the X carriage is 1..MaxHomeDist steps
\* from its endstop; the other carriages rest on theirs.
SysEndstopDists == {d \in EndstopDists : d[0] >= 1 /\ \A i \in HomeAxes : i # 0 => d[i] = 0}

StateInit(persistent, buffering) ==
    [_doShutdownAfterMoveCompletes |-> FALSE,
     _doExitEventLoopAfterMoveCompletes |-> FALSE,
     _doBufferMoves |-> buffering,
     _destMm |-> [i \in Axes |-> 0],
     _destMoveRatePrimitive |-> MoveRates.default,
     _isHoming |-> FALSE,
     _isHomed |-> FALSE,
     _isWaitingForHotend |-> FALSE,
     _lastMotionPlannedTime |-> 0,
     _isRootComPersistent |-> persistent,
     ioDrivers |-> [hotendTemp |-> 0, hotendTarget |-> 0, bedTarget |-> 0, fanRate |-> 0,
                    locked |-> TRUE],
     scheduler |-> [maxSleep |-> DefaultMaxSleep],
     _positionMode |-> POS_ABSOLUTE,
     _extruderPosMode |-> POS_ABSOLUTE,
     unitMode |-> UNIT_MM,
     _hostZeroOffset |-> [i \in Axes |-> 0]]

HistInit(n) ==
    [replies |-> [i \in 1..n |-> 0], executed |-> [i \in 1..n |-> FALSE], dangling |-> FALSE,
     idle |-> [room |-> FALSE, queued |-> 0, consumed |-> FALSE],
     notReady |-> FALSE, moveFrom |-> "none",
     start |-> [start |-> 0, last |-> 0, now |-> 0],
     maxPrev |-> 0, minCur |-> NaN, maxCur |-> NaN, segments |-> 0,
     returned |-> [any |-> FALSE, idle |-> TRUE, flag |-> FALSE],
     hot |-> TRUE, coldMove |-> FALSE, refusedHot |-> FALSE,
     exit |-> [code |-> 0, line |-> 0], thrown |-> 0, outside |-> FALSE,
     homing |-> [tended |-> FALSE, idle |-> FALSE, touched |-> FALSE],
     atCall |-> [buffering |-> TRUE, maxSleep |-> DefaultMaxSleep],
     early |-> [unhomed |-> FALSE, homing |-> FALSE, busy |-> FALSE,
                deactivated |-> FALSE],
     deactivated |-> FALSE,
     opened |-> 0, readBelow |-> FALSE, lostAtEof |-> FALSE,
     m99 |-> [main |-> 0, other |-> FALSE, root |-> FALSE],
     setting |-> [moved |-> FALSE, busy |-> FALSE],
     poll |-> NoPoll("none")]

\* State::State, state.h:271-291.  The constructor does not initialise
\* _doBufferMoves, so it starts with either value.  The root channel is
\* either the host's stream, kept open, or a g-code file read to its end.
Init ==
    /\ planner = MotionPlannerInit
    /\ peekedEvt = NullEvent
    /\ endstopDist \in SysEndstopDists
    /\ \E prog \in Programs, persistent \in BOOLEAN, buffering \in BOOLEAN :
          /\ st = StateInit(persistent, buffering)
          /\ gcodeFileStack = <<Com(1, numbered(prog), ~persistent)>>
          /\ hist = HistInit(Len(prog))
    /\ schedQueue = <<>>
    /\ ioPending \in {<<>>, <<IoEvent>>}
    /\ frames = <<>>
    /\ needCpu = TRUE
    /\ running = TRUE
    /\ now = 0
    /\ machine \in [doHomeBeforeFirstMovement : BOOLEAN, drivers : {1}]
    /\ lastCall = NoCall
    /\ segEvents = <<>>
    /\ segInit = NoSegment
    /\ posBase = [i \in Axes |-> 0]
    /\ stepSum = [i \in Axes |-> 0]

\* The event loop has nothing queued: onIdleCpu(OnIdleCpuIntervalWide).
OnIdleCpuWide ==
    /\ running
    /\ schedQueue = <<>>
    /\ \E lands \in BOOLEAN, polled \in [1..machine.drivers -> BOOLEAN] :
          \E r \in {onIdleCpu(Cfg, TRUE, lands, polled)} : SetCfg(r)

\* The event loop waits for the deadline of the next event:
\* onIdleCpu(OnIdleCpuIntervalShort), as long as it returns true.
OnIdleCpuShort ==
    /\ running
    /\ schedQueue # <<>>
    /\ Head(schedQueue).time > now
    /\ needCpu
    /\ \E lands \in BOOLEAN, polled \in [1..machine.drivers -> BOOLEAN] :
          \E r \in {onIdleCpu(Cfg, FALSE, lands, polled)} : SetCfg(r)

\* The event loop has waited until the deadline of the next event and emits it.
EmitEvent ==
    /\ running
    /\ schedQueue # <<>>
    /\ now' = Max(now, Head(schedQueue).time)
    /\ schedQueue' = Tail(schedQueue)
    /\ needCpu' = TRUE
    /\ UNCHANGED <<planner, endstopDist, plannerHistVars, peekedEvt, st, gcodeFileStack,
                   ioPending, frames, running, machine, hist>>

\* Time passes while the machine has nothing planned.
Tick ==
    /\ running
    /\ schedQueue = <<>>
    /\ now <= st._lastMotionPlannedTime
    /\ now' = now + 1
    /\ UNCHANGED <<planner, endstopDist, plannerHistVars, peekedEvt, st, gcodeFileStack,
                   schedQueue, ioPending, frames, needCpu, running, machine, hist>>

Next == OnIdleCpuWide \/ OnIdleCpuShort \/ EmitEvent \/ Tick

Spec == Init /\ [][Next]_vars

\* The event loop (Scheduler::eventLoop) never stops of its own accord and
\* time passes: as long as some step is possible, a step is taken.
FairSpec == Spec /\ WF_vars(Tick \/ EmitEvent \/ OnIdleCpuShort \/ OnIdleCpuWide)

(***************************************************************************)
(* The machine with a hotend: M109 and M116 wait for it, M112 stops the    *)
(* process, and the temperature the driver measures changes on its own.    *)
(***************************************************************************)
MaxTemp == 1

HeatOps == {[op |-> "G1", x |-> 1], [op |-> "G28", x |-> 0], [op |-> "M109", x |-> MaxTemp],
            [op |-> "M109", x |-> NaN], [op |-> "M116", x |-> 0], [op |-> "M112", x |-> 0]}

HeatPrograms == {<<a>> : a \in HeatOps} \cup {<<a, b>> : a \in HeatOps, b \in HeatOps}

HeatInit ==
    /\ planner = MotionPlannerInit
    /\ peekedEvt = NullEvent
    /\ endstopDist = [i \in HomeAxes |-> IF i = 0 THEN MaxHomeDist ELSE 0]
    /\ \E prog \in HeatPrograms, persistent \in BOOLEAN, temp \in 0..MaxTemp :
          /\ st = [StateInit(persistent, TRUE) EXCEPT !.ioDrivers.hotendTemp = temp]
          /\ gcodeFileStack = <<Com(1, numbered(prog), ~persistent)>>
          /\ hist = HistInit(Len(prog))
    /\ schedQueue = <<>>
    /\ ioPending = <<>>
    /\ frames = <<>>
    /\ needCpu = TRUE
    /\ running = TRUE
    /\ now = 0
    /\ machine \in [doHomeBeforeFirstMovement : BOOLEAN, drivers : {1}]
    /\ lastCall = NoCall
    /\ segEvents = <<>>
    /\ segInit = NoSegment
    /\ posBase = [i \in Axes |-> 0]
    /\ stepSum = [i \in Axes |-> 0]

\* The hotend heats up or cools down.
HotendChanges ==
    /\ running
    /\ \E temp \in 0..MaxTemp :
          /\ temp # getHotendTemp(st.ioDrivers)
          /\ st' = [st EXCEPT !.ioDrivers.hotendTemp = temp]
          /\ hist' = [hist EXCEPT !.hot = @ \/ temp >= getHotendTargetTemp(st.ioDrivers)]
    /\ UNCHANGED <<planner, endstopDist, plannerHistVars, peekedEvt, gcodeFileStack,
                   schedQueue, ioPending, frames, needCpu, running, now, machine>>

HeatNext == Next \/ HotendChanges

SpecHeat == HeatInit /\ [][HeatNext]_vars

(***************************************************************************)
(* The machine under commands that do not plan what they are given: an     *)
(* opcode that execute does not know (M999), the commands that release the *)
(* stepper motors (M18, M84), and movements, one of them to a destination  *)
(* outside the machine's envelope.                                         *)
(***************************************************************************)
CmdOps == {[op |-> "G1", x |-> 1], [op |-> "G1", x |-> MaxCoord + 1], [op |-> "M18", x |-> 0],
           [op |-> "M84", x |-> 0], [op |-> "M999", x |-> 0]}

\* The sequences of one to three commands.
CmdPrograms ==
    {<<a>> : a \in CmdOps} \cup {<<a, b>> : a \in CmdOps, b \in CmdOps}
      \cup {<<a, b, d>> : a \in CmdOps, b \in CmdOps, d \in CmdOps}

CmdInit ==
    /\ planner = MotionPlannerInit
    /\ peekedEvt = NullEvent
    /\ endstopDist = [i \in HomeAxes |-> IF i = 0 THEN 1 ELSE 0]
    /\ \E prog \in CmdPrograms :
          /\ st = StateInit(TRUE, TRUE)
          /\ gcodeFileStack = <<Com(1, numbered(prog), FALSE)>>
          /\ hist = HistInit(Len(prog))
    /\ schedQueue = <<>>
    /\ ioPending = <<>>
    /\ frames = <<>>
    /\ needCpu = TRUE
    /\ running = TRUE
    /\ now = 0
    /\ machine \in [doHomeBeforeFirstMovement : BOOLEAN, drivers : {1}]
    /\ lastCall = NoCall
    /\ segEvents = <<>>
    /\ segInit = NoSegment
    /\ posBase = [i \in Axes |-> 0]
    /\ stepSum = [i \in Axes |-> 0]

SpecCmd == CmdInit /\ [][Next]_vars

(***************************************************************************)
(* The machine running sub-programs: M32 opens a g-code file of the        *)
(* filesystem, M99 returns from one.  File 1 may open file 2.  The         *)
(* commands of the root channel are numbered from 1, those of file 1 from  *)
(* MaxSubLen + 1 and those of file 2 from 2 * MaxSubLen + 1.               *)
(***************************************************************************)
MaxSubLen == 2

numberedFrom(prog, base) ==
    [i \in 1..Len(prog) |-> [op |-> prog[i].op, x |-> prog[i].x, line |-> base + i]]

SubOps == {[op |-> "M32", x |-> 1], [op |-> "M99", x |-> 0], [op |-> "M105", x |-> 0],
           [op |-> "G1", x |-> 1]}

SubPrograms == {<<a>> : a \in SubOps} \cup {<<a, b>> : a \in SubOps, b \in SubOps}

SubFiles ==
    {<<[op |-> "G1", x |-> 1], [op |-> "G1", x |-> 2]>>,
     <<[op |-> "M32", x |-> 2], [op |-> "M105", x |-> 0]>>,
     <<[op |-> "M99", x |-> 0], [op |-> "M105", x |-> 0]>>,
     <<[op |-> "M105", x |-> 0]>>}

FileSystems ==
    {[i \in 1..2 |-> IF i = 1 THEN numberedFrom(f, MaxSubLen)
                     ELSE numberedFrom(<<[op |-> "G1", x |-> 1], [op |-> "M99", x |-> 0]>>,
                                       2 * MaxSubLen)] : f \in SubFiles}

SubInit ==
    /\ planner = MotionPlannerInit
    /\ peekedEvt = NullEvent
    /\ endstopDist = [i \in HomeAxes |-> IF i = 0 THEN 1 ELSE 0]
    /\ \E prog \in SubPrograms, persistent \in BOOLEAN :
          /\ st = StateInit(persistent, TRUE)
          /\ gcodeFileStack = <<Com(1, numbered(prog), ~persistent)>>
          /\ hist = HistInit(3 * MaxSubLen)
    /\ schedQueue = <<>>
    /\ ioPending = <<>>
    /\ frames = <<>>
    /\ needCpu = TRUE
    /\ running = TRUE
    /\ now = 0
    /\ machine \in [doHomeBeforeFirstMovement : {FALSE}, drivers : {1},
                     filesystem : FileSystems]
    /\ lastCall = NoCall
    /\ segEvents = <<>>
    /\ segInit = NoSegment
    /\ posBase = [i \in Axes |-> 0]
    /\ stepSum = [i \in Axes |-> 0]

SpecSub == SubInit /\ [][Next]_vars

(***************************************************************************)
(* The machine receiving, next to movements, the commands that set how the *)
(* host's coordinates are read, the heaters and the fan.                   *)
(***************************************************************************)
SettingOps ==
    {[op |-> "G1", x |-> 2], [op |-> "G20", x |-> 0], [op |-> "G21", x |-> 0],
     [op |-> "G90", x |-> 0], [op |-> "G91", x |-> 0], [op |-> "G92", x |-> 1],
     [op |-> "G92", x |-> NaN], [op |-> "M82", x |-> 0], [op |-> "M83", x |-> 0],
     [op |-> "M104", x |-> MaxTemp], [op |-> "M106", x |-> 1], [op |-> "M107", x |-> 0],
     [op |-> "M110", x |-> 0], [op |-> "M140", x |-> MaxTemp], [op |-> "T", x |-> 0]}

SettingPrograms ==
    {<<a>> : a \in SettingOps} \cup {<<a, b>> : a \in SettingOps, b \in SettingOps}

SettingInit ==
    /\ planner = MotionPlannerInit
    /\ peekedEvt = NullEvent
    /\ endstopDist = [i \in HomeAxes |-> IF i = 0 THEN 1 ELSE 0]
    /\ \E prog \in SettingPrograms :
          /\ st = StateInit(TRUE, TRUE)
          /\ gcodeFileStack = <<Com(1, numbered(prog), FALSE)>>
          /\ hist = HistInit(Len(prog))
    /\ schedQueue = <<>>
    /\ ioPending = <<>>
    /\ frames = <<>>
    /\ needCpu = TRUE
    /\ running = TRUE
    /\ now = 0
    /\ machine = [doHomeBeforeFirstMovement |-> FALSE, drivers |-> 1]
    /\ lastCall = NoCall
    /\ segEvents = <<>>
    /\ segInit = NoSegment
    /\ posBase = [i \in Axes |-> 0]
    /\ stepSum = [i \in Axes |-> 0]

SpecSetting == SettingInit /\ [][Next]_vars

(***************************************************************************)
(* Machines with up to MaxDrivers IoDrivers, running a program of at most  *)
(* one command.                                                            *)
(***************************************************************************)
MaxDrivers == 3

DriversInit ==
    /\ planner = MotionPlannerInit
    /\ peekedEvt = NullEvent
    /\ endstopDist = [i \in HomeAxes |-> IF i = 0 THEN 1 ELSE 0]
    /\ \E prog \in {q \in Programs : Len(q) <= 1}, persistent \in BOOLEAN :
          /\ st = StateInit(persistent, TRUE)
          /\ gcodeFileStack = <<Com(1, numbered(prog), ~persistent)>>
          /\ hist = HistInit(Len(prog))
    /\ schedQueue = <<>>
    /\ ioPending \in {<<>>, <<IoEvent>>}
    /\ frames = <<>>
    /\ needCpu = TRUE
    /\ running = TRUE
    /\ now = 0
    /\ machine \in [doHomeBeforeFirstMovement : {FALSE}, drivers : 0..MaxDrivers]
    /\ lastCall = NoCall
    /\ segEvents = <<>>
    /\ segInit = NoSegment
    /\ posBase = [i \in Axes |-> 0]
    /\ stepSum = [i \in Axes |-> 0]

SpecDrivers == DriversInit /\ [][Next]_vars

(***************************************************************************)
(* The planner on its own: any client that respects readyForNextMove.      *)
(* The rest of the machine is not involved.                                *)
(***************************************************************************)
SysIdle ==
    /\ peekedEvt = NullEvent
    /\ st = StateInit(TRUE, TRUE)
    /\ gcodeFileStack = <<>>
    /\ schedQueue = <<>>
    /\ ioPending = <<>>
    /\ frames = <<>>
    /\ needCpu = TRUE
    /\ running = TRUE
    /\ now = 0
    /\ machine = [doHomeBeforeFirstMovement |-> FALSE]
    /\ hist = HistInit(0)

\* The planner after it has executed the segment it is in, with the signed
\* sum of the steps it returned on the way.
RECURSIVE runToIdle(_, _, _)
runToIdle(p, es, sum) ==
    IF p._motionType = MotionNone THEN [p |-> p, sum |-> sum]
    ELSE LET r == nextStep(p, es)
         IN runToIdle(r.p, es,
                      IF r.evt.null THEN sum
                      ELSE [sum EXCEPT ![r.evt.axis] = @ + stepDirToSigned(r.evt.dir)])

\* The planner is constructed at the origin and has completed one move to
\* some position; the properties follow the segment that comes next.
PlannerInit ==
    \E d0 \in Destinations :
       LET r == runToIdle(moveTo(MotionPlannerInit, 0, d0, 1, -MaxExtrudeRate, MaxExtrudeRate),
                          [i \in HomeAxes |-> FALSE], [i \in Axes |-> 0])
       IN /\ planner = r.p
          /\ endstopDist = [i \in HomeAxes |-> 0]
          /\ lastCall = NoCall
          /\ segEvents = <<>>
          /\ segInit = NoSegment
          /\ posBase = [i \in Axes |-> 0]
          /\ stepSum = r.sum
          /\ SysIdle

\* The history kept when the planner is given a new segment.
BeginSegment(p, kind, baseTime, dest, maxVelXyz) ==
    /\ lastCall' = [op |-> kind, before |-> p._motionType, evt |-> NullEvent,
                    mechBefore |-> p._destMechanicalPos]
    /\ segEvents' = <<>>
    /\ segInit' = [kind |-> kind, mech |-> p._destMechanicalPos, dest |-> dest,
                   baseTime |-> baseTime, maxVelXyz |-> maxVelXyz]
    /\ UNCHANGED <<posBase, stepSum>>

\* The history kept when nextStep(p) returned r.
RecordStep(p, r) ==
    /\ lastCall' = [op |-> "nextStep", before |-> p._motionType, evt |-> r.evt,
                    mechBefore |-> p._destMechanicalPos]
    /\ segEvents' = IF r.evt.null THEN segEvents ELSE Append(segEvents, r.evt)
    /\ UNCHANGED segInit
    /\ IF p._motionType = MotionHome /\ r.p._motionType = MotionNone
       THEN /\ posBase' = r.p._destMechanicalPos
            /\ stepSum' = [i \in Axes |-> 0]
       ELSE /\ posBase' = posBase
            /\ stepSum' = IF r.evt.null THEN stepSum
                          ELSE [stepSum EXCEPT ![r.evt.axis] = @ + stepDirToSigned(r.evt.dir)]

PlannerMoveTo ==
    /\ readyForNextMove(planner)
    /\ segInit = NoSegment
    /\ \E dest \in Destinations, vel \in Velocities, base \in BaseTimes :
          /\ planner' = moveTo(planner, base, dest, vel, -MaxExtrudeRate, MaxExtrudeRate)
          /\ BeginSegment(planner, MotionMove, base, dest, vel)
    /\ UNCHANGED <<endstopDist, sysVars>>

PlannerHomeEndstops ==
    /\ readyForNextMove(planner)
    /\ segInit = NoSegment
    /\ \E dist \in EndstopDists, vel \in Velocities, base \in BaseTimes :
          /\ endstopDist' = dist
          /\ planner' = homeEndstops(planner, base, vel, endstopsAtStart(dist))
          /\ BeginSegment(planner, MotionHome, base, planner._destMechanicalPos, vel)
    /\ UNCHANGED sysVars

PlannerNextStep ==
    LET r == nextStep(planner, endstops(planner, endstopDist))
    IN /\ planner' = r.p
       /\ RecordStep(planner, r)
       /\ UNCHANGED <<endstopDist, sysVars>>

PlannerNext == PlannerMoveTo \/ PlannerHomeEndstops \/ PlannerNextStep

SpecPlanner == PlannerInit /\ [][PlannerNext]_vars

(***************************************************************************)
(* The coordinates of the host: the commands that move (G1) and those that *)
(* set how coordinates are read (G90, G91, G92, M82, M83), executed one    *)
(* after the other from power-on, every move run to its end.               *)
(***************************************************************************)
MaxArg == 2

MaxCmds == 5

\* The parameters G1 is given: none, X or E.
G1Args == UNION {[S -> 0..MaxArg] : S \in {{}, {0}, {AxisE}}}

\* The parameters G92 is given: none, X, E or both.
G92Args == UNION {[S -> {0, MaxArg}] : S \in SUBSET {0, AxisE}}

\* The steps the planner returns until it is idle again, counted per axis
\* and direction.
RECURSIVE runMove(_, _)
runMove(p, cnt) ==
    IF p._motionType = MotionNone THEN [p |-> p, fwd |-> cnt.fwd, bwd |-> cnt.bwd]
    ELSE LET r == nextStep(p, [i \in HomeAxes |-> FALSE])
         IN runMove(r.p,
                    IF r.evt.null THEN cnt
                    ELSE IF r.evt.dir = StepForward
                    THEN [cnt EXCEPT !.fwd[r.evt.axis] = @ + 1]
                    ELSE [cnt EXCEPT !.bwd[r.evt.axis] = @ + 1])

CoordInit ==
    /\ planner = MotionPlannerInit
    /\ endstopDist = [i \in HomeAxes |-> 0]
    /\ lastCall = NoCall
    /\ segEvents = <<>>
    /\ segInit = NoSegment
    /\ posBase = [i \in Axes |-> 0]
    /\ stepSum = [i \in Axes |-> 0]
    /\ peekedEvt = NullEvent
    /\ st = StateInit(TRUE, TRUE)
    /\ gcodeFileStack = <<>>
    /\ schedQueue = <<>>
    /\ ioPending = <<>>
    /\ frames = <<>>
    /\ needCpu = TRUE
    /\ running = TRUE
    /\ now = 0
    /\ machine = [doHomeBeforeFirstMovement |-> FALSE]
    /\ hist = [n |-> 0, fwd |-> [i \in Axes |-> 0], bwd |-> [i \in Axes |-> 0],
               cmd |-> [op |-> "none", args |-> <<>>], before |-> StateInit(TRUE, TRUE)]

\* History: the command just executed and the State it was given.
noteCmd(op, args, cnt) ==
    [n |-> hist.n + 1, fwd |-> cnt.fwd, bwd |-> cnt.bwd,
     cmd |-> [op |-> op, args |-> args], before |-> st]

\* G0/G1 (state.h:481-494) on a planner that is ready, followed by the whole
\* move.
CoordMove ==
    /\ hist.n < MaxCmds
    /\ readyForNextMove(planner)
    /\ \E args \in G1Args :
          LET dest == g1Dest(st, args)
          IN /\ \A i \in Axes : Abs(dest[i]) <= MaxCoord
             /\ \E r \in {runMove(moveTo(planner, now, dest, st._destMoveRatePrimitive,
                                         -MaxExtrudeRate, MaxExtrudeRate), hist)} :
                   /\ planner' = r.p
                   /\ st' = [st EXCEPT !._destMm = dest]
                   /\ hist' = noteCmd("G1", args, r)
    /\ UNCHANGED <<endstopDist, plannerHistVars, peekedEvt, gcodeFileStack, schedQueue,
                   ioPending, frames, needCpu, running, now, machine>>

\* G90, G91, M82, M83 and G92.
CoordSet ==
    /\ hist.n < MaxCmds
    /\ \/ \E op \in {"G90", "G91", "M82", "M83"} :
             /\ st' = setModes(st, op)
             /\ hist' = noteCmd(op, <<>>, hist)
       \/ \E args \in G92Args :
             /\ st' = executeG92(st, args)
             /\ hist' = noteCmd("G92", args, hist)
    /\ UNCHANGED <<planner, endstopDist, plannerHistVars, peekedEvt, gcodeFileStack,
                   schedQueue, ioPending, frames, needCpu, running, now, machine>>

CoordNext == CoordMove \/ CoordSet

SpecCoord == CoordInit /\ [][CoordNext]_vars

(***************************************************************************)
(* The units of the host: G20 and G21 select inches or millimetres, G1     *)
(* moves along X and sets the feed rate with F.  Commands are executed one *)
(* after the other from power-on, every move run to its end.               *)
(***************************************************************************)
\* The feed rates given with F, in units per minute.
FeedRates == {300, 600}

\* The parameters G1 is given here: none or X.
UnitsArgs == UNION {[S -> 0..MaxArg] : S \in {{}, {0}}}

UnitsInit ==
    /\ planner = MotionPlannerInit
    /\ endstopDist = [i \in HomeAxes |-> 0]
    /\ lastCall = NoCall
    /\ segEvents = <<>>
    /\ segInit = NoSegment
    /\ posBase = [i \in Axes |-> 0]
    /\ stepSum = [i \in Axes |-> 0]
    /\ peekedEvt = NullEvent
    /\ st = StateInit(TRUE, TRUE)
    /\ gcodeFileStack = <<>>
    /\ schedQueue = <<>>
    /\ ioPending = <<>>
    /\ frames = <<>>
    /\ needCpu = TRUE
    /\ running = TRUE
    /\ now = 0
    /\ machine = [doHomeBeforeFirstMovement |-> FALSE]
    /\ hist = [n |-> 0, cmd |-> [op |-> "none", args |-> <<>>, f |-> NaN, rate |-> NaN],
               before |-> StateInit(TRUE, TRUE)]

\* G0/G1 (state.h:481-494) on a planner that is ready, followed by the whole
\* move.  The history keeps the rate handed to setDestMoveRatePrimitive.
UnitsMove ==
    /\ hist.n < MaxCmds
    /\ readyForNextMove(planner)
    /\ \E args \in UnitsArgs, f \in FeedRates \cup {NaN} :
          LET dest == g1Dest(st, args)
              st1 == g1MoveRate(st, f)
          IN /\ \A i \in Axes : Abs(dest[i]) <= MaxCoord
             /\ \E r \in {runMove(moveTo(planner, now, dest, st1._destMoveRatePrimitive,
                                         -MaxExtrudeRate, MaxExtrudeRate),
                                  [fwd |-> [i \in Axes |-> 0], bwd |-> [i \in Axes |-> 0]])} :
                   planner' = r.p
             /\ st' = [st1 EXCEPT !._destMm = dest]
             /\ hist' = [n |-> hist.n + 1,
                         cmd |-> [op |-> "G1", args |-> args, f |-> f,
                                  rate |-> IF IsNaN(f) THEN NaN ELSE fUnitToPrimitive(st, f)],
                         before |-> st]
    /\ UNCHANGED <<endstopDist, plannerHistVars, peekedEvt, gcodeFileStack, schedQueue,
                   ioPending, frames, needCpu, running, now, machine>>

\* G20 and G21, state.h:531-536.
UnitsSet ==
    /\ hist.n < MaxCmds
    /\ \E mode \in {UNIT_IN, UNIT_MM} :
          /\ st' = setUnitMode(st, mode)
          /\ hist' = [n |-> hist.n + 1,
                      cmd |-> [op |-> IF mode = UNIT_IN THEN "G20" ELSE "G21", args |-> <<>>,
                               f |-> NaN, rate |-> NaN],
                      before |-> st]
    /\ UNCHANGED <<planner, endstopDist, plannerHistVars, peekedEvt, gcodeFileStack,
                   schedQueue, ioPending, frames, needCpu, running, now, machine>>

UnitsNext == UnitsMove \/ UnitsSet

SpecUnits == UnitsInit /\ [][UnitsNext]_vars

(***************************************************************************)
(* The planner of a linear delta machine, following tower A through one    *)
(* linear segment or one arc.  The other axes stay put.                    *)
(***************************************************************************)
DeltaMove == "DeltaMove"
ArcMove == "ArcMove"

\* Tower radius r = 2 and rod lengths 3 and 7; the effector starts at
\* (x0, y0, 0) with the carriage at height M0 on the rod's sphere.
DeltaGeometries ==
    {g \in [r : {2}, L : {3, 7}, M0 : 1..6, x0 : -2..2, y0 : -1..1, z0 : {0},
            vx : -1..1, vy : -1..1, vz : -1..1] :
        /\ g.L * g.L = g.x0 * g.x0 + (g.r - g.y0) * (g.r - g.y0) + g.M0 * g.M0
        /\ <<g.vx, g.vy, g.vz>> # <<0, 0, 0>>}

\* The phase of the carriage's extreme height, whether it is a maximum
\* (peak = 1) or a minimum (peak = -1), and the angular velocity.
ArcGeometries == [theta0 : (1 - ArcHalf)..ArcHalf, peak : {-1, 1}, m : {-1, 1}]

idleStepper(i) == LinearStepper_nextStep(LinearStepper(i, 0, 0))

\* drv::AxisStepper::initAxisSteppers for the delta machine's steppers.
initDeltaSteppers(g) ==
    [i \in Axes |-> IF i = 0 THEN LinearDeltaStepper_nextStep(LinearDeltaStepper(i, g))
                    ELSE idleStepper(i)]

\* drv::AxisStepper::initAxisArcSteppers.
initArcSteppers(g) ==
    [i \in Axes |-> IF i = 0 THEN LinearDeltaArcStepper_nextStep(LinearDeltaArcStepper(i, g))
                    ELSE idleStepper(i)]

\* MotionPlanner::moveTo (motionplanner.h:143-147) with the delta steppers.
deltaMoveTo(p, baseTime, g, duration) ==
    [p EXCEPT !._baseTime = baseTime,
              !._iters = initDeltaSteppers(g),
              !._duration = duration,
              !._motionType = MotionMove]

\* MotionPlanner::arcTo, the same with the arc steppers.
arcTo(p, baseTime, g, duration) ==
    [p EXCEPT !._baseTime = baseTime,
              !._iters = initArcSteppers(g),
              !._duration = duration,
              !._motionType = MotionMove]

StepperInit ==
    /\ planner = MotionPlannerInit
    /\ endstopDist = [i \in HomeAxes |-> 0]
    /\ lastCall = NoCall
    /\ segEvents = <<>>
    /\ segInit = NoSegment
    /\ posBase = [i \in Axes |-> 0]
    /\ stepSum = [i \in Axes |-> 0]
    /\ SysIdle

StepperMoveTo ==
    /\ readyForNextMove(planner)
    /\ segInit = NoSegment
    /\ \E g \in DeltaGeometries, secs \in 1..6 :
          /\ planner' = deltaMoveTo(planner, TicksPerSecond, g, secs * v2(g) * DeltaTimeScale)
          /\ BeginSegment(planner, DeltaMove, TicksPerSecond, planner._destMechanicalPos, 1)
    /\ UNCHANGED <<endstopDist, sysVars>>

StepperArcTo ==
    /\ readyForNextMove(planner)
    /\ segInit = NoSegment
    /\ \E g \in ArcGeometries, dur \in 1..(2 * ArcHalf) :
          /\ planner' = arcTo(planner, TicksPerSecond, g, dur)
          /\ BeginSegment(planner, ArcMove, TicksPerSecond, planner._destMechanicalPos, 1)
    /\ UNCHANGED <<endstopDist, sysVars>>

StepperNext == StepperMoveTo \/ StepperArcTo \/ PlannerNextStep

SpecStepper == StepperInit /\ [][StepperNext]_vars

(***************************************************************************)
(* Properties of the planner.                                              *)
(***************************************************************************)
mechPos == planner._destMechanicalPos

\* The events of the current segment that belong to one axis, in order.
axisEvents(i) == SelectSeq(segEvents, LAMBDA e : e.axis = i)

segDelta(i) == segInit.dest[i] - segInit.mech[i]

segmentComplete == segInit.kind # MotionNone /\ planner._motionType = MotionNone

\* C1: within one segment (from moveTo / homeEndstops until the planner is
\* idle again) the deadlines of the events returned by successive nextStep
\* calls never decrease.
C1_DeadlinesNonDecreasing ==
    \A i, j \in 1..Len(segEvents) : i < j => segEvents[i].time <= segEvents[j].time

\* A completed move in which two axes stepped and the deadline grew.
C1_Witness ==
    /\ segmentComplete
    /\ segInit.kind = MotionMove
    /\ \E i, j \in 1..Len(segEvents) :
          /\ i < j
          /\ segEvents[i].axis # segEvents[j].axis
          /\ segEvents[i].time < segEvents[j].time

\* C3 (state part): each axis's mechanical position is its value at the last
\* home reset (or at construction) plus the signed sum of the steps returned
\* for that axis since then.
C3_PositionIsSumOfSteps == \A i \in Axes : mechPos[i] = posBase[i] + stepSum[i]

\* C3 (step part): the position changes only in a nextStep call, either by the
\* one step that the call returns or by the home reset that ends a homing.
C3_ChangesOnlyInNextStep ==
    mechPos' # mechPos =>
       /\ lastCall'.op = "nextStep"
       /\ \/ /\ ~lastCall'.evt.null
             /\ mechPos' = [mechPos EXCEPT ![lastCall'.evt.axis] =
                                               @ + stepDirToSigned(lastCall'.evt.dir)]
          \/ /\ lastCall'.evt.null
             /\ planner._motionType = MotionHome
             /\ planner'._motionType = MotionNone

\* C3: the mechanical position equals its value at the last home reset (or
\* start) plus the signed sum of the emitted steps, and it changes only in
\* the nextStep call that returns the corresponding step.
C3_NoDrift == []C3_PositionIsSumOfSteps /\ [][C3_ChangesOnlyInNextStep]_vars

\* A completed move that stepped X backward and the extruder forward.
C3_Witness ==
    /\ segmentComplete
    /\ segInit.kind = MotionMove
    /\ mechPos[0] < segInit.mech[0]
    /\ mechPos[AxisE] > segInit.mech[AxisE]
    /\ stepSum[0] = mechPos[0]

isUnitStep(from, to) ==
    \E i \in Axes : \E sgn \in {-1, 1} : to = [from EXCEPT ![i] = @ + sgn]

\* C7: the mechanical positions are reset to the home position in one step,
\* exactly at the nextStep call in which the planner goes from homing to
\* idle, and not before: entering homing leaves the positions alone, and
\* while the planner is homing they change only by the emitted homing steps.
C7_HomeReset ==
    /\ (planner._motionType # MotionHome /\ planner'._motionType = MotionHome)
          => mechPos' = mechPos
    /\ (planner._motionType = MotionHome /\ planner'._motionType = MotionHome)
          => (mechPos' = mechPos \/ (~lastCall'.evt.null /\ isUnitStep(mechPos, mechPos')))
    /\ (planner._motionType = MotionHome /\ planner'._motionType = MotionNone)
          => (lastCall'.op = "nextStep" /\ mechPos' = getHomePosition(mechPos))

C7_HomeResetAtEnd == [][C7_HomeReset]_vars

\* A homing that made steps has just ended, and the reset moved the position.
C7_Witness ==
    /\ segmentComplete
    /\ segInit.kind = MotionHome
    /\ Len(segEvents) >= 2
    /\ lastCall.op = "nextStep"
    /\ lastCall.before = MotionHome
    /\ lastCall.mechBefore # mechPos
    /\ mechPos = getHomePosition(lastCall.mechBefore)

\* A stepper has no more steps for a segment of the given duration.
finished(s, duration) ==
    \/ IsNaN(s.time)
    \/ s.time <= 0
    \/ (~IsNaN(duration) /\ s.time > duration)

activeIters(p) == IF p._motionType = MotionHome THEN p._homeIters ELSE p._iters

C8_LeavesWhenFinished ==
    (planner._motionType # MotionNone /\ planner'._motionType = MotionNone) =>
       /\ \A i \in Axes : finished(activeIters(planner)[i], planner._duration)
       /\ lastCall'.op = "nextStep"
       /\ lastCall'.evt.null
       /\ segEvents' = segEvents
       /\ stepSum' = stepSum \/ planner._motionType = MotionHome

C8_EarlierCallsStep ==
    (planner._motionType # MotionNone /\ lastCall.op = "nextStep") => ~lastCall.evt.null

\* C8: the planner leaves moving/homing for idle only when every axis stepper
\* is finished (NaN, or a time outside (0, duration]); the nextStep call that
\* makes the transition returns the null event and emits no step, and every
\* earlier nextStep call of the segment returned a real step.
C8_IdleOnlyWhenAllFinished == []C8_EarlierCallsStep /\ [][C8_LeavesWhenFinished]_vars

\* A move of several steps has just ended with the null event.
C8_Witness ==
    /\ segmentComplete
    /\ segInit.kind = MotionMove
    /\ Len(segEvents) >= 3
    /\ lastCall.op = "nextStep"
    /\ lastCall.before = MotionMove
    /\ lastCall.evt.null

sign(x) == IF x < 0 THEN -1 ELSE 1

\* C10: on the Cartesian machine a completed linear move has returned, for
\* each axis, exactly |delta| steps, all in the direction of travel; the
\* steps are in deadline order with ties going to the lower axis; the k-th
\* step of an axis is due k/|delta| of the segment's duration after its start
\* (rounded down to the clock tick), so the first one is one interval after
\* the start and the last one at the end; a move along one axis at v mm/s has
\* its k-th step k/v seconds after the start (to the rounding of the clock);
\* and the mechanical position is the destination.
C10_LinearMoveSteps ==
    (segmentComplete /\ segInit.kind = MotionMove) =>
       /\ mechPos = segInit.dest
       /\ \A i \in Axes :
             LET ev == axisEvents(i)
                 n == Abs(segDelta(i))
             IN /\ Len(ev) = n
                /\ \A k \in 1..Len(ev) :
                      /\ stepDirToSigned(ev[k].dir) = sign(segDelta(i))
                      /\ ev[k].time = segInit.baseTime + (k * planner._duration) \div n
                      /\ (\A j \in Axes \ {i} : segDelta(j) = 0) /\ i # AxisE
                            => LET dt == (ev[k].time - segInit.baseTime) * segInit.maxVelXyz
                               IN /\ dt <= k * TicksPerSecond
                                  /\ dt > k * TicksPerSecond - 2 * segInit.maxVelXyz
       /\ \A j \in 1..(Len(segEvents) - 1) :
             \/ segEvents[j].time < segEvents[j + 1].time
             \/ (segEvents[j].time = segEvents[j + 1].time
                   /\ segEvents[j].axis < segEvents[j + 1].axis)

\* A completed move of three X steps and one extruder step, with two steps
\* due at the same time.
C10_Witness ==
    /\ segmentComplete
    /\ segInit.kind = MotionMove
    /\ Abs(segDelta(0)) >= 3
    /\ Abs(segDelta(AxisE)) = 1
    /\ mechPos = segInit.dest
    /\ \E j \in 1..(Len(segEvents) - 1) : segEvents[j].time = segEvents[j + 1].time

\* C2 (state part): on every axis the deadlines of consecutive steps of the
\* segment are strictly increasing.
C2_StrictlyIncreasing ==
    \A i \in Axes :
       \A k \in 1..(Len(axisEvents(i)) - 1) : axisEvents(i)[k].time < axisEvents(i)[k + 1].time

\* C2 (step part): a nextStep call that returns a step changes that axis's
\* mechanical coordinate by +1 or -1 and no other coordinate.
C2_UnitStep ==
    (lastCall'.op = "nextStep" /\ ~lastCall'.evt.null) =>
       /\ \A i \in Axes \ {lastCall'.evt.axis} : mechPos'[i] = mechPos[i]
       /\ mechPos'[lastCall'.evt.axis] - mechPos[lastCall'.evt.axis] \in {-1, 1}

DeltaReversalReached ==
    /\ segInit.kind = DeltaMove
    /\ Len(segEvents) >= 3
    /\ \E j, k \in 1..Len(segEvents) : segEvents[j].dir # segEvents[k].dir

(***************************************************************************)
(* Properties of the whole machine.                                        *)
(***************************************************************************)
\* C4: the scheduler's queue never holds more than its bound; a call of
\* onIdleCpu queues at most one event, and it queues an event or consumes one
\* from the planner only when the scheduler reported room.
C4_QueueBounded ==
    /\ Len(schedQueue) <= SchedBufferSize
    /\ hist.idle.queued \in {0, 1}
    /\ (hist.idle.queued = 1 \/ hist.idle.consumed) => hist.idle.room

\* The queue is full, the last onIdleCpu put a motion event into it, and the
\* planner's next event has to wait.
C4_Witness ==
    /\ Len(schedQueue) = SchedBufferSize
    /\ hist.idle.queued = 1
    /\ hist.idle.consumed
    /\ ~peekedEvt.null

\* C5: State calls the planner's moveTo (from G0/G1, after the automatic
\* homing, and from the blocking CoordMapInterface::moveTo of the home
\* routine) only while readyForNextMove() is true.
C5_MoveOnlyWhenReady == ~hist.notReady

\* The first G1 of a machine that homes before its first movement has run
\* the home routine and planned its own move.
C5_Witness ==
    /\ machine.doHomeBeforeFirstMovement
    /\ st._isHomed
    /\ hist.moveFrom = "G1"
    /\ hist.segments = 2
    /\ planner._motionType = MotionMove

\* C6: every command gets exactly one reply: never two, and never none once
\* it has been executed.
C6_ExactlyOneReply ==
    \A i \in DOMAIN hist.replies :
       /\ hist.replies[i] <= 1
       /\ hist.executed[i] => hist.replies[i] = 1

\* C9: each segment starts at max(time of the last planned motion event,
\* now), and no step of the current segment is due before a step of an
\* earlier segment.
C9_SegmentsDoNotOverlap ==
    /\ hist.start.start = Max(hist.start.last, hist.start.now)
    /\ hist.minCur # NaN => hist.minCur >= hist.maxPrev

\* A later segment has produced a step; it was planned while the last step
\* of the segment before it was still due.
C9_Witness ==
    /\ hist.segments >= 2
    /\ hist.minCur # NaN
    /\ hist.maxPrev > 0
    /\ hist.start.last > hist.start.now

\* C11: a homing run terminates.  Every endstop triggers once its axis has
\* been stepped far enough, so whenever State::homeEndstops has begun it
\* eventually returns: the machine is homed, the planner has left Homing
\* and the homed axes are at the home position.
C11_HomingTerminates ==
    st._isHoming ~> (/\ ~st._isHoming
                     /\ st._isHomed
                     /\ planner._motionType # MotionHome
                     /\ \A i \in HomeAxes : mechPos[i] = 0)

\* A G28 whose carriage started away from the endstop has returned.
C11_Witness ==
    /\ st._isHomed
    /\ ~st._isHoming
    /\ hist.moveFrom = "home"
    /\ endstopDist[0] >= 1
    /\ planner._motionType = MotionNone
    /\ \A i \in HomeAxes : mechPos[i] = 0
    /\ \E i \in DOMAIN hist.executed : hist.executed[i]

(***************************************************************************)
(* C12.  The blocking CoordMapInterface::moveTo (state.h:150-156) returns  *)
(* only when the movement it queued is complete: whenever it has returned, *)
(* the planner had no further event and was idle at that moment and        *)
(* _doExitEventLoopAfterMoveCompletes was false again; and the machine     *)
(* does not stay inside a nested event loop for ever.                      *)
(***************************************************************************)
C12_ReturnedWhenComplete ==
    hist.returned.any => hist.returned.idle /\ ~hist.returned.flag

C12_EveryLoopExits == frames # <<>> ~> frames = <<>>

C12_MoveToBlocks == []C12_ReturnedWhenComplete /\ C12_EveryLoopExits

\* A homing whose X carriage had to step has returned, and its caller has
\* gone on.
C12_Witness ==
    /\ hist.returned.any
    /\ hist.moveFrom = "home"
    /\ endstopDist[0] = MaxHomeDist
    /\ frames = <<>>
    /\ st._isHomed
    /\ ~st._isHoming

C14_ShutdownSticky ==
    [][st._doShutdownAfterMoveCompletes => st'._doShutdownAfterMoveCompletes]_vars

C14_ExitOnlyWhenHandedOver ==
    ~running => /\ st._doShutdownAfterMoveCompletes
                /\ peekedEvt.null
                /\ readyForNextMove(planner)

C14_EventuallyExits == st._doShutdownAfterMoveCompletes ~> ~running

C14_Shutdown == C14_ShutdownSticky /\ []C14_ExitOnlyWhenHandedOver /\ C14_EventuallyExits

\* M0 was given while a move was being executed, and the run has ended after
\* that move was handed to the scheduler.
C14_Witness ==
    /\ ~running
    /\ st._doShutdownAfterMoveCompletes
    /\ hist.moveFrom = "G1"
    /\ mechPos[0] > 0
    /\ \A i \in DOMAIN hist.executed : hist.executed[i]
    /\ Len(hist.executed) = 2

(***************************************************************************)
(* C15.  M112 is executed at the tending that finds it, whatever the       *)
(* planner, the hotend wait and homing: it is never left pending; the      *)
(* process has exited with code 1 exactly when an M112 was executed, with  *)
(* one reply to it; and nothing is queued after the process has exited.    *)
(***************************************************************************)
C15_NeverPending ==
    running => \A i \in DOMAIN gcodeFileStack : gcodeFileStack[i]._parsed.op # "M112"

C15_ExitedWithReply ==
    hist.exit.code = 1 => /\ ~running
                          /\ hist.executed[hist.exit.line]
                          /\ hist.replies[hist.exit.line] = 1

C15_NothingAfterExit ==
    [][~running => /\ schedQueue' = schedQueue
                   /\ planner' = planner
                   /\ peekedEvt' = peekedEvt
                   /\ hist' = hist]_vars

C15_EmergencyStop == [](C15_NeverPending /\ C15_ExitedWithReply) /\ C15_NothingAfterExit

\* M112 arrived while the machine was homing for a G28, with the planner
\* busy: the process has exited in the middle of the homing.
C15_Witness ==
    /\ hist.exit.code = 1
    /\ ~running
    /\ st._isHoming
    /\ frames # <<>>
    /\ ~readyForNextMove(planner)
    /\ hist.replies[hist.exit.line] = 1

(***************************************************************************)
(* C16.  A command that execute has not replied to stays the pending       *)
(* command of its channel, unchanged, and the channel's input is not read  *)
(* further; so a line is replied to only after every earlier line of its   *)
(* channel has been replied to, and the pending command is the first line  *)
(* without a reply.                                                       *)
(***************************************************************************)
C16_PresentedAgain ==
    [][\A i \in DOMAIN gcodeFileStack :
          (/\ gcodeFileStack[i]._parsed # NoCmd
           /\ i \in DOMAIN gcodeFileStack'
           /\ gcodeFileStack'[i].id = gcodeFileStack[i].id
           /\ hist'.replies[gcodeFileStack[i]._parsed.line]
                 = hist.replies[gcodeFileStack[i]._parsed.line])
          => /\ gcodeFileStack'[i]._parsed = gcodeFileStack[i]._parsed
             /\ gcodeFileStack'[i].input = gcodeFileStack[i].input]_vars

C16_InOrder ==
    /\ \A i, j \in DOMAIN hist.replies : i < j /\ hist.replies[j] > 0 => hist.replies[i] > 0
    /\ \A k \in DOMAIN gcodeFileStack :
          gcodeFileStack[k]._parsed # NoCmd =>
              \A i \in DOMAIN hist.replies :
                  (i < gcodeFileStack[k]._parsed.line) = (hist.replies[i] > 0)

lastWas(op, axis) == hist.cmd.op = op /\ axis \in DOMAIN hist.cmd.args

C18_G92SetsOrigin ==
    /\ lastWas("G92", 0) =>
          /\ st._hostZeroOffset[0] = hist.before._destMm[0] - hist.cmd.args[0]
          /\ st._destMm = hist.before._destMm
          /\ \A i \in Axes : mechPos[i] = hist.before._destMm[i]
    /\ (lastWas("G1", 0) /\ hist.before._positionMode = POS_ABSOLUTE) =>
          /\ st._destMm[0] = hist.before._hostZeroOffset[0] + hist.cmd.args[0]
          /\ mechPos[0] = st._hostZeroOffset[0] + hist.cmd.args[0]

\* G1 X MaxArg, G92 X0, G1 X1: the offset is MaxArg, the destination and the
\* mechanical position are MaxArg + 1.
C18_Witness ==
    /\ hist.n = 3
    /\ lastWas("G1", 0)
    /\ hist.cmd.args[0] = 1
    /\ hist.before._positionMode = POS_ABSOLUTE
    /\ st._hostZeroOffset[0] = MaxArg
    /\ st._destMm[0] = MaxArg + 1
    /\ mechPos[0] = MaxArg + 1
    /\ hist.fwd[0] = MaxArg + 1

\* C19: executing the same G92 (no parameters, X, E, or both) a second time
\* changes neither the State (host-zero offset, destination, modes) nor the
\* planner (mechanical position).
C19_G92Idempotent ==
    [][(/\ hist.cmd.op = "G92"
        /\ hist'.cmd = hist.cmd
        /\ hist'.n = hist.n + 1)
       => st' = st /\ planner' = planner]_vars

\* A G92 E0, given away from the origin and after an earlier G92 X, has been
\* executed twice in a row.
C19_Witness ==
    /\ hist.cmd.op = "G92"
    /\ DOMAIN hist.cmd.args = {AxisE}
    /\ hist.before = st
    /\ st._destMm[0] > 0
    /\ st._hostZeroOffset[0] > 0
    /\ st._hostZeroOffset[0] # st._destMm[0]
    /\ hist.n >= 4

\* C20: the E parameter of G1 is relative after M83 and absolute after M82,
\* whatever G90/G91 selected for X, Y and Z (stated with the host's origin
\* for E at the machine's).
C20_ExtruderModeIndependent ==
    (lastWas("G1", AxisE) /\ hist.before._hostZeroOffset[AxisE] = 0) =>
        st._destMm[AxisE] =
            IF hist.before._extruderPosMode = POS_RELATIVE
            THEN hist.before._destMm[AxisE] + hist.cmd.args[AxisE]
            ELSE hist.cmd.args[AxisE]

\* C34: in relative mode (G91) a G1 X d moves the tracked destination on X
\* by exactly d, whatever host-zero offset an earlier G92 has installed.
C34_RelativeMoveIgnoresOffset ==
    (lastWas("G1", 0) /\ hist.before._positionMode = POS_RELATIVE) =>
        st._destMm[0] = hist.before._destMm[0] + hist.cmd.args[0]

(***************************************************************************)
(* Properties of the host's units.                                         *)
(***************************************************************************)
\* The last command was a G1 with a feed rate.
lastHadF == hist.cmd.op = "G1" /\ ~IsNaN(hist.cmd.f)

C24_EofExits == (gcodeFileStack = <<>>) ~> (~running /\ readyForNextMove(planner))

(***************************************************************************)
(* C25.  While move buffering is disabled, onIdleCpu takes the next motion *)
(* step from the planner and queues it only when the deadline of the       *)
(* motion step queued before it has passed (_lastMotionPlannedTime <=      *)
(* now); so every motion step that is already in the scheduler's queue at  *)
(* that moment is due, and of the motion steps in the queue at most one is *)
(* not yet due once a step has been queued without buffering.              *)
(***************************************************************************)
\* The motion events in the scheduler's queue that are not yet due.
notYetDue(queue, t) == {i \in DOMAIN queue : queue[i].axis >= 0 /\ queue[i].time > t}

C25_QueuesWhenDue ==
    [][(/\ ~st._doBufferMoves
        /\ Len(schedQueue') = Len(schedQueue) + 1
        /\ ioPending' = ioPending)
       => /\ st._lastMotionPlannedTime <= now
          /\ notYetDue(schedQueue, now) = {}
          /\ Cardinality(notYetDue(schedQueue', now')) <= 1
          /\ hist'.idle.consumed
          /\ peekedEvt.null \/ st'._lastMotionPlannedTime = peekedEvt.time]_vars

C25_OneOutstanding ==
    (~st._doBufferMoves /\ st._isHoming) => Cardinality(notYetDue(schedQueue, now)) <= 1

C27_InForceWhileHoming ==
    st._isHoming => ~st._doBufferMoves /\ st.scheduler.maxSleep = OneMillisecond

C27_MachineHomed == (hist.returned.any /\ ~st._isHoming) => st._isHomed

C27_BufferingRestored ==
    (hist.returned.any /\ ~st._isHoming) => st._doBufferMoves = hist.atCall.buffering

C27_SleepRestored ==
    (hist.returned.any /\ ~st._isHoming) => st.scheduler.maxSleep = hist.atCall.maxSleep

C27_HomingRestoresSettings ==
    /\ C27_InForceWhileHoming
    /\ C27_MachineHomed
    /\ C27_BufferingRestored
    /\ C27_SleepRestored

\* C36: whenever the machine is not homing, moves are buffered
\* (_doBufferMoves is true), from construction onwards.
C36_BufferingOutsideHoming == ~st._isHoming => st._doBufferMoves

\* C28: on a machine that homes before its first movement no G0/G1 move is
\* planned while _isHomed is false: whenever such a move is planned, the
\* home routine has run and returned, the machine is homed and not homing,
\* and the planner is idle.
C28_HomesBeforeFirstMovement ==
    /\ ~hist.early.unhomed
    /\ ~hist.early.homing
    /\ ~hist.early.busy
    /\ (machine.doHomeBeforeFirstMovement /\ hist.moveFrom = "G1") =>
           hist.returned.any /\ hist.returned.idle /\ st._isHomed

\* The first movement command of such a machine has homed and its own move
\* is in progress.
C28_Witness ==
    /\ machine.doHomeBeforeFirstMovement
    /\ hist.returned.any
    /\ hist.moveFrom = "G1"
    /\ hist.atCall.maxSleep = DefaultMaxSleep
    /\ ~st._isHoming
    /\ ~readyForNextMove(planner)

(***************************************************************************)
(* Properties of the commands that are not planned as given.               *)
(***************************************************************************)
\* C22: a command with an unrecognized opcode that has been handed to
\* execute has got its (error) reply, and the event loop is still running.
C22_UnknownOpcodeAnswered ==
    hist.thrown # 0 => hist.replies[hist.thrown] = 1 /\ running

\* C23: a move whose destination lies outside the machine's envelope is
\* rejected: no segment is ever planned for such a destination, and the
\* tracked destination _destMm, left unchanged by the rejected command, is
\* never outside the envelope.
C23_OutOfBoundsRejected == ~hist.outside /\ inEnvelope(st._destMm)

(***************************************************************************)
(* LinearDeltaStepper::testDir.                                            *)
(***************************************************************************)
\* The delta stepper of the segment in progress, and the carriage offsets
\* around its position at which testDir is evaluated.
deltaIter == planner._iters[0]

deltaInProgress == segInit.kind = DeltaMove /\ deltaIter.kind = "delta"

TestedOffsets == {(deltaIter.sTotal + k) * deltaIter.MM_STEPS : k \in -2..2}

\* The roots of the step quadratic at offset s, the later ones being those
\* strictly after the stepper's last emitted time.
stepRoots(d, s) ==
    IF v2(d) = 0 \/ getRootParam(d, s) < 0 THEN {}
    ELSE {getTerm1(d, s) - ISqrt(getRootParam(d, s)),
          getTerm1(d, s) + ISqrt(getRootParam(d, s))}

laterRoots(d, s) == {t \in stepRoots(d, s) : ~IsNaN(d.time) /\ t > d.time}

\* C30: testDir(s) returns the smallest root of the step quadratic that is
\* strictly greater than the stepper's last emitted time, and NaN when the
\* discriminant is negative or no root exceeds that time; it never returns
\* a value less than or equal to the last emitted time.
C30_SmallestLaterRoot ==
    deltaInProgress =>
       \A s \in TestedOffsets :
          /\ laterRoots(deltaIter, s) = {} => IsNaN(testDir(deltaIter, s))
          /\ laterRoots(deltaIter, s) # {} =>
                /\ testDir(deltaIter, s) \in laterRoots(deltaIter, s)
                /\ \A u \in laterRoots(deltaIter, s) : testDir(deltaIter, s) <= u
          /\ ~FLe(testDir(deltaIter, s), deltaIter.time)

\* The stepper has emitted a step, and at one of the offsets the earlier
\* root is non-negative but not after that step: the later root is returned.
C30_Witness ==
    /\ deltaInProgress
    /\ deltaIter.time > 0
    /\ \E s \in TestedOffsets :
          /\ getRootParam(deltaIter, s) > 0
          /\ ISqrt(getRootParam(deltaIter, s)) <= getTerm1(deltaIter, s)
          /\ getTerm1(deltaIter, s) - ISqrt(getRootParam(deltaIter, s)) <= deltaIter.time
          /\ testDir(deltaIter, s) = getTerm1(deltaIter, s) + ISqrt(getRootParam(deltaIter, s))

\* The discriminant is negative at one of the offsets.
C30_WitnessNoRoot ==
    /\ deltaInProgress
    /\ \E s \in TestedOffsets : getRootParam(deltaIter, s) < 0

\* The candidates of _nextStep on stepper d: the time of the backward and of
\* the forward step, and those of them that are valid.
candidateTime(d, dir) == testDir(d, (d.sTotal + stepDirToSigned(dir)) * d.MM_STEPS)

\* The stepper of the segment in progress as its constructor left it, before
\* initAxisSteppers computed its first step.
freshIter == [deltaIter EXCEPT !.time = 0, !.sTotal = 0, !.direction = StepForward]

validDirs(d) == {dir \in {StepBackward, StepForward} : ~IsNaN(candidateTime(d, dir))}

\* C31: _nextStep takes the smaller of the valid candidate times, which
\* fixes the direction, and sTotal changes by +1 or -1 as the direction
\* says; when no candidate is valid the time becomes NaN while sTotal and
\* direction stay, and a further _nextStep yields NaN again.
C31_SmallerValidTimeWins ==
    deltaInProgress =>
       \A d \in {deltaIter, freshIter} :
          LET n == LinearDeltaStepper_nextStep(d)
          IN IF validDirs(d) = {}
             THEN /\ IsNaN(n.time)
                  /\ n.sTotal = d.sTotal
                  /\ n.direction = d.direction
                  /\ IsNaN(LinearDeltaStepper_nextStep(n).time)
                  /\ LinearDeltaStepper_nextStep(n).sTotal = d.sTotal
             ELSE /\ n.direction \in validDirs(d)
                  /\ n.time = candidateTime(d, n.direction)
                  /\ \A dir \in validDirs(d) : n.time <= candidateTime(d, dir)
                  /\ n.sTotal = d.sTotal + stepDirToSigned(n.direction)

\* The stepper has stepped, and both its candidates are valid with the
\* forward one the earlier: the carriage will rise and come down again.
C31_Witness ==
    /\ deltaInProgress
    /\ deltaIter.sTotal # 0
    /\ validDirs(deltaIter) = {StepBackward, StepForward}
    /\ candidateTime(deltaIter, StepForward) < candidateTime(deltaIter, StepBackward)

\* The stepper has stepped and has no valid candidate left.
C31_WitnessDone ==
    /\ deltaInProgress
    /\ deltaIter.sTotal # 0
    /\ ~IsNaN(deltaIter.time)
    /\ validDirs(deltaIter) = {}

(***************************************************************************)
(* MotionPlanner::moveTo: durations and velocities.                        *)
(***************************************************************************)
\* The duration of the XYZ motion of the segment in progress, by which
\* moveTo divides to get the extruder velocity (motionplanner.h:128-129).
segXyzDuration ==
    xyzDuration([_destMechanicalPos |-> segInit.mech], segInit.dest, segInit.maxVelXyz)

\* C32: every move, also one that covers no XYZ distance, is planned with a
\* duration that is positive (at least one nanosecond), and the duration by
\* which the velocities are divided is never zero.
C32_DurationAtLeastNanosecond ==
    segInit.kind = MotionMove =>
       /\ segXyzDuration > 0
       /\ planner._duration > 0

\* The segment in progress: where it starts, where it ends, how far the
\* extruder goes, and whether the extruder velocity that fits the XYZ
\* duration is outside the limits (or not a number).
segCur == xyzeFromMechanical(segInit.mech)

segDest == bound(applyLeveling(segInit.dest))

segDe == segDest[AxisE] - segCur[AxisE]

idealVelEClamped ==
    \/ segXyzDuration = 0
    \/ segDe * TicksPerSecond > MaxExtrudeRate * segXyzDuration
    \/ segDe * TicksPerSecond < -MaxExtrudeRate * segXyzDuration

\* C33: the extruder velocity handed to the steppers (vn mm in vd ticks)
\* lies within [minVelE, maxVelE]; when the ideal velocity was clamped the
\* duration is (dest.e - cur.e) / velE, to the tick, and the XYZ velocities
\* are the XYZ distances over that duration.
C33_ExtruderVelocityClamped ==
    segInit.kind = MotionMove =>
       /\ planner._iters[AxisE].vd > 0
       /\ planner._iters[AxisE].vn * TicksPerSecond <= MaxExtrudeRate * planner._iters[AxisE].vd
       /\ planner._iters[AxisE].vn * TicksPerSecond >= -MaxExtrudeRate * planner._iters[AxisE].vd
       /\ idealVelEClamped =>
             /\ segDe * planner._iters[AxisE].vn >= 0
             /\ planner._duration * Abs(planner._iters[AxisE].vn)
                   <= Abs(segDe) * planner._iters[AxisE].vd
             /\ Abs(segDe) * planner._iters[AxisE].vd
                   < (planner._duration + 1) * Abs(planner._iters[AxisE].vn)
             /\ \A i \in HomeAxes :
                   /\ planner._iters[i].vn = segDest[i] - segCur[i]
                   /\ planner._iters[i].vd = planner._duration

\* A move in X whose extruder velocity had to be clamped has stepped the
\* extruder.
C33_Witness ==
    /\ segInit.kind = MotionMove
    /\ idealVelEClamped
    /\ segXyzDuration > 0
    /\ planner._duration > segXyzDuration
    /\ stepSum[AxisE] # 0

(***************************************************************************)
(* Properties of sub-programs.                                             *)
(***************************************************************************)
\* C35: no channel opened by M32 is removed from the file stack at EOF
\* while its last parsed command is still deferred: every command of the
\* file is executed and replied to before the channel is popped.
C35_NoCommandLostAtEof == ~hist.lostAtEof

\* C38: the file stack is a call stack: only the top channel, and the root
\* channel when it is persistent, are read; M99 read from a sub-program
\* pops that sub-program; a persistent root channel stays on the stack.
C38_CallStack ==
    /\ ~hist.readBelow
    /\ ~hist.m99.other
    /\ st._isRootComPersistent => gcodeFileStack # <<>> /\ gcodeFileStack[1].id = 1

\* C39: M99 received while only the main channel is on the file stack sets
\* the shutdown-after-move flag and is replied to.
C39_M99EndsProgram ==
    hist.m99.main # 0 =>
       /\ hist.replies[hist.m99.main] = 1
       /\ st._doShutdownAfterMoveCompletes \/ ~running

\* C37: a command that is neither a movement nor a homing (G20, G21, G90,
\* G91, G92, M82, M83, M104..M140, T) leaves the planner, and with it the
\* mechanical position, the step that was peeked, the scheduler's queue and
\* the tracked destination _destMm as they were.
C37_NonMovementLeavesMotion == ~hist.setting.moved

\* G92 X1 has been executed while the move of G1 X2 was in progress.
C37_Witness == hist.setting.busy /\ st._hostZeroOffset[0] # 0

\* C40: an onIdleCpu call that does not exit the event loop has called the
\* onIdleCpu handler of every IoDriver exactly once, in tuple order, also
\* after a handler has answered true, and has returned true exactly when
\* the motion or at least one driver wanted more CPU (false for the motion
\* alone when there are no drivers); a call that has not returned has
\* exited the event loop or is suspended in a nested event loop.
C40_EveryDriverPolled ==
    /\ hist.poll.end = "returned" =>
          /\ hist.poll.calls = [i \in 1..machine.drivers |-> i - 1]
          /\ hist.poll.ok
    /\ running => hist.poll.end # "entered"

\* A call has returned on a machine with MaxDrivers drivers, one of which,
\* not the last, answered true.
C40_Witness ==
    /\ hist.poll.end = "returned"
    /\ machine.drivers = MaxDrivers
    /\ hist.poll.early

\* A call has returned false on a machine without drivers.
C40_WitnessEmpty ==
    /\ hist.poll.end = "returned"
    /\ machine.drivers = 0
    /\ ~needCpu

\* C29: once M18 or M84 has deactivated the stepper motors the machine is
\* not considered homed until it has been homed again, and a machine that
\* homes before its first movement plans no move in between.
C29_DeactivationUnhomes ==
    /\ hist.deactivated => ~st._isHomed
    /\ ~hist.early.deactivated

====
